---- MODULE Spec2Model ----
(***************************************************************************)
(* Retrieval, aggregation and response synthesis of the ICLeaf chat        *)
(* service: the source adapters and the aggregator of                      *)
(* retrievers/web_retriever.py, the context composition and the fallback  *)
(* chain of agents/external_agent.py, and agents/internal_agent.py.        *)
(*                                                                         *)
(* Text is a sequence of one-character strings, so that slicing, len(),    *)
(* lower(), split() and the `in` substring test are computed.  A Python    *)
(* value that may be None is a tagged record (PyStr, PyInt, PyNone); a     *)
(* Python dict is a function whose DOMAIN is the set of keys present.      *)
(***************************************************************************)
EXTENDS Integers, Sequences, FiniteSets, TLC

VARIABLES
    pc,                  \* position of the call in flight
    state,               \* QueryState: role, mode, query
    world,               \* what the providers answer during this call
    structured_context,  \* the bundle retrieve_structured returned
    full_context,        \* the composed context
    locals,              \* the local variables of the call in flight
    calls,               \* log of the collaborator calls made so far
    response,            \* what the call handed back to its caller
    process              \* the requests served and the clients built so far

vars == <<pc, state, world, structured_context, full_context, locals, calls, response,
          process>>

-----------------------------------------------------------------------------
(* Bounds of the model *)

\* longest query enumerated character by character for the adapters
MaxQueryLen == 2
\* most records a provider answers with
MaxResults == 2
\* the requests one process serves
MaxRequests == 2
\* length of a long page body: with it the legacy rendering of one web
\* result is MAX_CONTEXT_LENGTH characters long, and one more with LongLen + 1
LongLen == 3950

(* Program constants *)

MAX_SEARCH_RESULTS == 5
MAX_CONTEXT_LENGTH == 4000
\* description[:200] in the video adapter
DESCRIPTION_LIMIT == 200
\* full_context[:500] in the final fallback answer
ANSWER_CONTEXT_LIMIT == 500
\* the safety buffer added to the rate-limit wait
RATE_LIMIT_BUFFER == 60

-----------------------------------------------------------------------------
(* Python values *)

PyNone == [t |-> "none", s |-> <<>>, n |-> 0]
PyStr(s) == [t |-> "str", s |-> s, n |-> 0]
PyInt(n) == [t |-> "int", s |-> <<>>, n |-> n]

IsNone(x) == x.t = "none"

\* bool(x)
Truthy(x) == CASE x.t = "none" -> FALSE
               [] x.t = "str" -> x.s # <<>>
               [] x.t = "int" -> x.n # 0

\* d.get(k, default)
Get(d, k, default) == IF k \in DOMAIN d THEN d[k] ELSE default

\* x or default
Or(x, default) == IF Truthy(x) THEN x ELSE default

-----------------------------------------------------------------------------
(* Text *)

S_NA == <<"N","/","A">>
S_ELLIPSIS == <<".",".",".">>
S_NO_INFO == <<"N","o"," ","r","e","l","e","v","a","n","t"," ","i","n","f","o","r","m","a","t","i","o","n"," ","f","o","u","n","d",".">>

\* a text of n characters
Text(n) == [i \in 1..n |-> "x"]

\* s[:n]
Prefix(s, n) == SubSeq(s, 1, IF Len(s) < n THEN Len(s) ELSE n)

LowerChar(c) ==
  CASE c = "A" -> "a" []
       c = "B" -> "b" []
       c = "C" -> "c" []
       c = "D" -> "d" []
       c = "E" -> "e" []
       c = "F" -> "f" []
       c = "G" -> "g" []
       c = "H" -> "h" []
       c = "I" -> "i" []
       c = "J" -> "j" []
       c = "K" -> "k" []
       c = "L" -> "l" []
       c = "M" -> "m" []
       c = "N" -> "n" []
       c = "O" -> "o" []
       c = "P" -> "p" []
       c = "Q" -> "q" []
       c = "R" -> "r" []
       c = "S" -> "s" []
       c = "T" -> "t" []
       c = "U" -> "u" []
       c = "V" -> "v" []
       c = "W" -> "w" []
       c = "X" -> "x" []
       c = "Y" -> "y" []
       c = "Z" -> "z"
    [] OTHER -> c

\* s.lower()
Lower(s) == [i \in 1..Len(s) |-> LowerChar(s[i])]

\* t in s
IsSubstring(t, s) ==
  \E i \in 0..(Len(s) - Len(t)) : SubSeq(s, i + 1, i + Len(t)) = t

IsSpace(c) == c \in {" ", "\n", "\t"}

\* s.split(): the maximal runs of non-whitespace characters, in order
RECURSIVE SplitFrom(_, _, _)
SplitFrom(s, i, cur) ==
  IF i > Len(s)
    THEN IF cur = <<>> THEN <<>> ELSE <<cur>>
    ELSE IF IsSpace(s[i])
           THEN (IF cur = <<>> THEN <<>> ELSE <<cur>>) \o SplitFrom(s, i + 1, <<>>)
           ELSE SplitFrom(s, i + 1, Append(cur, s[i]))

Split(s) == SplitFrom(s, 1, <<>>)

\* sep.join(parts)
RECURSIVE Join(_, _)
Join(sep, parts) ==
  IF parts = <<>> THEN <<>>
  ELSE IF Len(parts) = 1 THEN parts[1]
  ELSE parts[1] \o sep \o Join(sep, Tail(parts))

DigitChar(d) == <<"0","1","2","3","4","5","6","7","8","9">>[d + 1]

\* str(n) for n >= 0
RECURSIVE IntToStr(_)
IntToStr(n) == IF n < 10 THEN <<DigitChar(n)>>
               ELSE IntToStr(n \div 10) \o <<DigitChar(n % 10)>>

\* f"{x}" of a Python value
Format(x) == CASE x.t = "none" -> <<"N","o","n","e">>
               [] x.t = "str" -> x.s
               [] x.t = "int" -> IntToStr(x.n)

Range(seq) == {seq[i] : i \in 1..Len(seq)}

-----------------------------------------------------------------------------
(* retrievers/web_retriever.py: the repository adapter's vocabulary *)

programming_keywords ==
  { 
      <<"p","y","t","h","o","n">>,
      <<"j","a","v","a","s","c","r","i","p","t">>,
      <<"j","a","v","a">>,
      <<"c","+","+">>,
      <<"c","#">>,
      <<"g","o">>,
      <<"r","u","s","t">>,
      <<"p","h","p">>,
      <<"r","u","b","y">>,
      <<"s","w","i","f","t">>,
      <<"r","e","a","c","t">>,
      <<"a","n","g","u","l","a","r">>,
      <<"v","u","e">>,
      <<"n","o","d","e">>,
      <<"d","j","a","n","g","o">>,
      <<"f","l","a","s","k">>,
      <<"s","p","r","i","n","g">>,
      <<"l","a","r","a","v","e","l">>,
      <<"a","p","i">>,
      <<"l","i","b","r","a","r","y">>,
      <<"f","r","a","m","e","w","o","r","k">>,
      <<"t","o","o","l">>,
      <<"s","c","r","i","p","t">>,
      <<"b","o","t">>,
      <<"a","u","t","o","m","a","t","i","o","n">>,
      <<"a","l","g","o","r","i","t","h","m">>,
      <<"d","a","t","a"," ","s","t","r","u","c","t","u","r","e">>,
      <<"m","a","c","h","i","n","e"," ","l","e","a","r","n","i","n","g">>,
      <<"a","i">>,
      <<"m","l">>,
      <<"n","e","u","r","a","l">>,
      <<"d","a","t","a","b","a","s","e">>,
      <<"s","q","l">>,
      <<"n","o","s","q","l">>,
      <<"r","e","d","i","s">>,
      <<"m","o","n","g","o","d","b">>,
      <<"p","o","s","t","g","r","e","s","q","l">>,
      <<"d","o","c","k","e","r">>,
      <<"k","u","b","e","r","n","e","t","e","s">>,
      <<"a","w","s">>,
      <<"a","z","u","r","e">>,
      <<"g","c","p">>,
      <<"c","l","o","u","d">>,
      <<"g","i","t">>,
      <<"g","i","t","h","u","b">>,
      <<"g","i","t","l","a","b">>,
      <<"c","i","/","c","d">>,
      <<"d","e","p","l","o","y","m","e","n","t">>,
      <<"d","e","v","o","p","s">>,
      <<"m","o","b","i","l","e">>,
      <<"a","n","d","r","o","i","d">>,
      <<"i","o","s">>,
      <<"f","l","u","t","t","e","r">>,
      <<"r","e","a","c","t"," ","n","a","t","i","v","e">>,
      <<"w","e","b">>,
      <<"f","r","o","n","t","e","n","d">>,
      <<"b","a","c","k","e","n","d">>,
      <<"f","u","l","l","s","t","a","c","k">>,
      <<"m","i","c","r","o","s","e","r","v","i","c","e","s">>
  }

is_programming_query(query_lower) ==
  \E keyword \in programming_keywords : IsSubstring(keyword, query_lower)

-----------------------------------------------------------------------------
(* Collaborator calls, as they are logged in `calls` *)

Call(op) == [op |-> op, arg |-> 0]
Sleep(seconds) == [op |-> "time.sleep", arg |-> seconds]

\* what an adapter did: the list it returned (or that it raised) and its calls
Returned(value, made) == [raised |-> FALSE, value |-> value, calls |-> made]
Raised(made) == [raised |-> TRUE, value |-> <<>>, calls |-> made]

-----------------------------------------------------------------------------
(* WebRetriever._web_search_structured *)

web_record(result) ==
  [ title       |-> Get(result, "title", PyStr(S_NA)),
    url         |-> Get(result, "link", PyStr(S_NA)),
    description |-> Get(result, "body", PyStr(S_NA)) ]

\* w.web: [ok: the provider answered, results: the raw result dicts]
_web_search_structured(w, query) ==
  IF ~w.web.ok
    THEN Returned(<<>>, <<Call("ddgs.text")>>)
    ELSE Returned([i \in 1..Len(w.web.results) |-> web_record(w.web.results[i])],
                  <<Call("ddgs.text")>>)

-----------------------------------------------------------------------------
(* WebRetriever._youtube_search_structured *)

IsDigit(c) == c \in {"0","1","2","3","4","5","6","7","8","9"}

\* the index after the run of digits that starts at i
RECURSIVE DigitsEnd(_, _)
DigitsEnd(s, i) ==
  IF i <= Len(s) /\ IsDigit(s[i]) THEN DigitsEnd(s, i + 1) ELSE i

\* (?:(\d+)X)? at position i: the digits captured (<<>> for no match) and
\* the position after the group
DurationGroup(s, i, letter) ==
  LET j == DigitsEnd(s, i) IN
    IF j > i /\ j <= Len(s) /\ s[j] = letter
      THEN [val |-> SubSeq(s, i, j - 1), next |-> j + 1]
      ELSE [val |-> <<>>, next |-> i]

\* re.match(r'PT(?:(\d+)H)?(?:(\d+)M)?(?:(\d+)S)?', duration) and the
\* rendering of its groups
format_duration(duration) ==
  IF Prefix(duration, 2) # <<"P","T">>
    THEN duration
    ELSE LET h == DurationGroup(duration, 3, "H")
             m == DurationGroup(duration, h.next, "M")
             s == DurationGroup(duration, m.next, "S")
             part(g, unit) == IF g.val # <<>> /\ g.val # <<"0">>
                                THEN <<g.val \o <<unit>>>> ELSE <<>>
             duration_parts == part(h, "h") \o part(m, "m") \o part(s, "s")
         IN IF duration_parts # <<>> THEN Join(<<" ">>, duration_parts) ELSE S_NA

S_WATCH_URL == <<"h","t","t","p","s",":","/","/","w","w","w",".","y","o","u","t","u","b","e",".","c","o","m","/","w","a","t","c","h","?","v","=">>

\* the body of the per-video try: does processing this video raise?
video_raises(video) ==
  \/ IsNone(Get(video, "duration", PyStr(S_NA)))     \* re.match(pattern, None)
  \/ IsNone(Get(video, "description", PyStr(<<>>)))  \* len(None)

youtube_record(video) ==
  LET raw_duration == Get(video, "duration", PyStr(S_NA))
      duration == IF raw_duration.s # S_NA
                    THEN PyStr(format_duration(raw_duration.s))
                    ELSE raw_duration
      raw_views == Get(video, "viewCount", PyNone)
      views == IF IsNone(raw_views) \/ raw_views = PyStr(<<>>)
                 THEN PyStr(<<"0">>)
                 ELSE PyStr(Format(raw_views))
      description == Get(video, "description", PyStr(S_NA))
  IN [ title       |-> Get(video, "title", PyStr(S_NA)),
       channel     |-> Get(video, "channelTitle", PyStr(S_NA)),
       duration    |-> duration,
       url         |-> PyStr(S_WATCH_URL \o Format(Get(video, "id", PyStr(S_NA)))),
       description |-> IF Len(Get(video, "description", PyStr(<<>>)).s) > DESCRIPTION_LIMIT
                         THEN PyStr(Prefix(description.s, DESCRIPTION_LIMIT) \o S_ELLIPSIS)
                         ELSE description,
       views       |-> views,
       published   |-> Get(video, "publishedAt", PyStr(S_NA)) ]

RECURSIVE youtube_records(_)
youtube_records(videos) ==
  IF videos = <<>> THEN <<>>
  ELSE (IF video_raises(Head(videos)) THEN <<>> ELSE <<youtube_record(Head(videos))>>)
       \o youtube_records(Tail(videos))

\* w.youtube: [client: an API key is configured, search_ok, search_items: the
\* number of items the search answers, videos_ok, videos: the raw video dicts]
_youtube_search_structured(w, query) ==
  IF ~w.youtube.client THEN Returned(<<>>, <<>>)
  ELSE IF ~w.youtube.search_ok
    THEN Returned(<<>>, <<Call("youtube.search.list")>>)
  ELSE IF w.youtube.search_items = 0
    THEN Returned(<<>>, <<Call("youtube.search.list")>>)
  ELSE IF ~w.youtube.videos_ok
    THEN Returned(<<>>, <<Call("youtube.search.list"), Call("youtube.videos.list")>>)
  ELSE Returned(youtube_records(w.youtube.videos),
                <<Call("youtube.search.list"), Call("youtube.videos.list")>>)

-----------------------------------------------------------------------------
(* WebRetriever._check_github_rate_limit *)

\* w.github.rate: [kind: "raise" (get_rate_limit raises), "unknown" (neither
\* a search nor a core limit), "none" (the limit object is falsy) or "limit";
\* remaining; reset_in: seconds from now to the reset; reset_type: "epoch"
\* when reset is a number of seconds, "datetime" when it is a datetime]
\* Returns [ok: the boolean returned, calls: the calls made].
_check_github_rate_limit(w) ==
  IF ~w.github.client THEN [ok |-> FALSE, calls |-> <<>>]
  ELSE LET rate == w.github.rate
           asked == <<Call("github.get_rate_limit")>>
       IN IF rate.kind # "limit" THEN [ok |-> TRUE, calls |-> asked]
          ELSE IF rate.remaining > 0 THEN [ok |-> TRUE, calls |-> asked]
          \* reset_time - time.time() raises for a datetime: caught, True
          ELSE IF rate.reset_type = "datetime" THEN [ok |-> TRUE, calls |-> asked]
          ELSE LET wait_time == rate.reset_in + RATE_LIMIT_BUFFER IN
                 IF wait_time > 0
                   THEN [ok |-> TRUE, calls |-> asked \o <<Sleep(wait_time)>>]
                   ELSE [ok |-> TRUE, calls |-> asked]

-----------------------------------------------------------------------------
(* WebRetriever._github_search_repositories_only *)

\* the terms are looked up in the name alone
relevance_score_name_only(query_lower, repo) ==
  LET repo_name_lower == Lower(repo.full_name.s)
      query_terms == Split(query_lower)
  IN Len(SelectSeq(query_terms, LAMBDA term : IsSubstring(term, repo_name_lower)))

\* sum(1 for term in query_terms if term in repo_name_lower or term in repo_desc_lower)
relevance_score(query_lower, repo) ==
  LET repo_name_lower == Lower(repo.full_name.s)
      repo_desc_lower == Lower(Or(repo.description, PyStr(<<>>)).s)
      query_terms == Split(query_lower)
  IN Len(SelectSeq(query_terms,
                   LAMBDA term : \/ IsSubstring(term, repo_name_lower)
                                 \/ IsSubstring(term, repo_desc_lower)))

repo_data(query_lower, repo) ==
  [ repository  |-> Or(repo.full_name, PyStr(S_NA)),
    description |-> Or(repo.description, PyStr(S_NA)),
    stars       |-> IF ~IsNone(repo.stargazers_count)
                      THEN repo.stargazers_count ELSE PyInt(0),
    url         |-> Or(repo.html_url, PyStr(S_NA)),
    relevance   |-> PyInt(relevance_score(query_lower, repo)) ]

\* all(repo_data.values()) and repo_data['repository'] != 'N/A' and repo_data['url'] != 'N/A'
repo_data_valid(d) ==
  /\ \A k \in DOMAIN d : Truthy(d[k])
  /\ d.repository # PyStr(S_NA)
  /\ d.url # PyStr(S_NA)

repo_kept(query_lower, repo) ==
  /\ relevance_score(query_lower, repo) > 0
  /\ repo_data_valid(repo_data(query_lower, repo))

\* the loop, with each kept repository put in front of the earlier ones
repo_results_reversed(query_lower, repos_list) ==
  LET head == Prefix(repos_list, MAX_SEARCH_RESULTS)
      kept == SelectSeq(head, LAMBDA repo : repo_kept(query_lower, repo))
  IN [i \in 1..Len(kept) |-> repo_data(query_lower, kept[Len(kept) + 1 - i])]

\* the loop over repos_list[:MAX_SEARCH_RESULTS]
repo_results(query_lower, repos_list) ==
  LET head == Prefix(repos_list, MAX_SEARCH_RESULTS)
      kept == SelectSeq(head, LAMBDA repo : repo_kept(query_lower, repo))
  IN [i \in 1..Len(kept) |-> repo_data(query_lower, kept[i])]

\* w.github: [client: a token is configured and accepted, rate, search: "ok",
\* "none" (the provider answers None), "rate_limited" or "error", repos]
_github_search_repositories_only(w, query) ==
  IF ~w.github.client THEN Returned(<<>>, <<>>)
  ELSE LET check == _check_github_rate_limit(w) IN
    IF ~check.ok THEN Returned(<<>>, check.calls)
    \* query.lower() on a query that is None, outside the try
    ELSE IF IsNone(query) THEN Raised(check.calls)
    ELSE LET query_lower == Lower(query.s)
             searched == check.calls \o <<Call("github.search_repositories")>>
         IN IF ~is_programming_query(query_lower) THEN Returned(<<>>, check.calls)
            ELSE IF w.github.search \in {"rate_limited", "error"}
              THEN Returned(<<>>, searched)
            ELSE IF w.github.search = "none" THEN Returned(<<>>, searched)
            \* repo.full_name.lower() on a name that is None: the except returns []
            ELSE IF \E i \in 1..Len(Prefix(w.github.repos, MAX_SEARCH_RESULTS)) :
                       IsNone(w.github.repos[i].full_name)
              THEN Returned(<<>>, searched)
            ELSE Returned(repo_results(query_lower, w.github.repos), searched)

-----------------------------------------------------------------------------
(* WebRetriever.retrieve_structured *)

\* the block without its except: an exception of the adapter leaves the call
source_step_unguarded(results, key, name, got) ==
  [ raised |-> got.raised,
    bundle |-> IF ~got.raised /\ got.value # <<>>
                 THEN [results EXCEPT ![key] = got.value,
                                      !.sources_used = Append(@, name)]
                 ELSE results,
    calls  |-> got.calls ]

\* one source's try block: the adapter's list when it is non-empty, and
\* the source is appended to sources_used; an exception of the adapter is
\* caught by the block's except
source_step(results, key, name, got) ==
  [ raised |-> FALSE,
    bundle |-> IF ~got.raised /\ got.value # <<>>
                 THEN [results EXCEPT ![key] = got.value,
                                      !.sources_used = Append(@, name)]
                 ELSE results,
    calls  |-> got.calls ]

EmptyBundle ==
  [ web_results |-> <<>>, youtube_results |-> <<>>,
    github_repositories |-> <<>>, sources_used |-> <<>> ]

\* Returns [raised, bundle, calls]; a block that raises ends the call.
retrieve_structured(w, query) ==
  LET web == source_step(EmptyBundle, "web_results", "web",
                         _web_search_structured(w, query))
      youtube == source_step(web.bundle, "youtube_results", "youtube",
                             _youtube_search_structured(w, query))
      github == source_step(youtube.bundle, "github_repositories", "github",
                            _github_search_repositories_only(w, query))
  IN IF web.raised THEN [raised |-> TRUE, bundle |-> web.bundle, calls |-> web.calls]
     ELSE IF youtube.raised
       THEN [raised |-> TRUE, bundle |-> youtube.bundle,
             calls |-> web.calls \o youtube.calls]
     ELSE [ raised |-> github.raised, bundle |-> github.bundle,
            calls |-> web.calls \o youtube.calls \o github.calls ]

-----------------------------------------------------------------------------
(* The legacy adapters: _web_search, _youtube_search, _github_search *)

S_TITLE == <<"T","i","t","l","e",":"," ">>
S_URL == <<"U","R","L",":"," ">>
S_DESCRIPTION == <<"D","e","s","c","r","i","p","t","i","o","n",":"," ">>
S_CHANNEL == <<"C","h","a","n","n","e","l",":"," ">>
S_DURATION == <<"D","u","r","a","t","i","o","n",":"," ">>
S_VIEWS == <<"V","i","e","w","s",":"," ">>
S_PUBLISHED == <<"P","u","b","l","i","s","h","e","d",":"," ">>
S_REPOSITORY == <<"R","e","p","o","s","i","t","o","r","y",":"," ">>
S_STARS == <<"S","t","a","r","s",":"," ">>
S_RELEVANCE == <<"R","e","l","e","v","a","n","c","e",":"," ">>
S_MATCHING == <<" ","m","a","t","c","h","i","n","g"," ","t","e","r","m","s">>
NL == <<"\n">>

S_WEB_HEADER == <<"W","e","b"," ","S","e","a","r","c","h"," ","R","e","s","u","l","t","s",":","\n">>
S_YOUTUBE_HEADER == <<"Y","o","u","T","u","b","e"," ","R","e","s","u","l","t","s",":","\n">>
S_GITHUB_HEADER == <<"G","i","t","H","u","b"," ","R","e","p","o","s","i","t","o","r","i","e","s",":","\n">>
S_GITHUB_LEGACY_HEADER == <<"G","i","t","H","u","b"," ","R","e","s","u","l","t","s",":","\n">>
S_TOP_REPOSITORIES == <<"T","o","p"," ","R","e","p","o","s","i","t","o","r","i","e","s",":","\n">>
S_RATE_LIMITED == <<"G","i","t","H","u","b"," ","s","e","a","r","c","h"," ","t","e","m","p","o","r","a","r","i","l","y"," ","u","n","a","v","a","i","l","a","b","l","e"," ","d","u","e"," ","t","o"," ","r","a","t","e"," ","l","i","m","i","t","i","n","g","."," ","P","l","e","a","s","e"," ","t","r","y"," ","a","g","a","i","n"," ","l","a","t","e","r",".">>

\* Returns [raised, value: the text, calls].
_web_search(w, query) ==
  IF ~w.web.ok THEN Returned(<<>>, <<Call("ddgs.text")>>)
  ELSE LET formatted(result) ==
             S_TITLE \o Format(Get(result, "title", PyStr(S_NA))) \o NL
             \o S_URL \o Format(Get(result, "link", PyStr(S_NA))) \o NL
             \o S_DESCRIPTION \o Format(Get(result, "body", PyStr(S_NA))) \o NL
       IN Returned(Join(NL, [i \in 1..Len(w.web.results) |-> formatted(w.web.results[i])]),
                   <<Call("ddgs.text")>>)

\* the legacy per-video try raises on a None duration or description
legacy_video_raises(video) ==
  \/ IsNone(Get(video, "duration", PyStr(S_NA)))
  \/ IsNone(Get(video, "description", PyStr(S_NA)))

legacy_video_text(video) ==
  LET r == youtube_record(video) IN
    S_TITLE \o Format(r.title) \o NL
    \o S_CHANNEL \o Format(r.channel) \o NL
    \o S_DURATION \o Format(r.duration) \o NL
    \o S_URL \o r.url.s \o NL
    \o S_DESCRIPTION
    \o Prefix(Get(video, "description", PyStr(S_NA)).s, DESCRIPTION_LIMIT)
    \o S_ELLIPSIS \o NL
    \o S_VIEWS \o r.views.s \o NL
    \o S_PUBLISHED \o Format(r.published) \o NL

_youtube_search(w, query) ==
  LET made == <<Call("youtube.search.list")>> IN
  IF ~w.youtube.client THEN Returned(<<>>, <<>>)
  ELSE IF ~w.youtube.search_ok \/ w.youtube.search_items = 0
    THEN Returned(<<>>, made)
  ELSE IF ~w.youtube.videos_ok
    THEN Returned(<<>>, made \o <<Call("youtube.videos.list")>>)
  ELSE LET good == SelectSeq(w.youtube.videos, LAMBDA v : ~legacy_video_raises(v)) IN
         Returned(Join(NL, [i \in 1..Len(good) |-> legacy_video_text(good[i])]),
                  made \o <<Call("youtube.videos.list")>>)

legacy_repo_text(query_lower, repo) ==
  S_REPOSITORY \o Format(repo.full_name) \o NL
  \o S_DESCRIPTION \o Format(Or(repo.description, PyStr(S_NA))) \o NL
  \o S_STARS \o Format(repo.stargazers_count) \o NL
  \o S_URL \o Format(repo.html_url) \o NL
  \o S_RELEVANCE \o IntToStr(relevance_score(query_lower, repo)) \o S_MATCHING \o NL

_github_search(w, query) ==
  IF ~w.github.client THEN Returned(<<>>, <<>>)
  ELSE LET check == _check_github_rate_limit(w) IN
    IF ~check.ok THEN Returned(<<>>, check.calls)
    ELSE IF IsNone(query) THEN Raised(check.calls)
    ELSE LET query_lower == Lower(query.s)
             searched == check.calls \o <<Call("github.search_repositories")>>
             head == Prefix(w.github.repos, MAX_SEARCH_RESULTS)
         IN IF ~is_programming_query(query_lower) THEN Returned(<<>>, check.calls)
            ELSE IF w.github.search = "rate_limited" THEN Returned(S_RATE_LIMITED, searched)
            \* slicing None, like any other error of the search, returns ""
            ELSE IF w.github.search \in {"error", "none"} THEN Returned(<<>>, searched)
            ELSE IF \E i \in 1..Len(head) : IsNone(head[i].full_name)
              THEN Returned(<<>>, searched)
            ELSE LET kept == SelectSeq(head,
                               LAMBDA repo : relevance_score(query_lower, repo) > 0)
                 IN IF kept = <<>> THEN Returned(<<>>, searched)
                    ELSE Returned(
                           S_TOP_REPOSITORIES
                           \o Join(NL, [i \in 1..Len(kept) |->
                                          legacy_repo_text(query_lower, kept[i])]),
                           searched)

-----------------------------------------------------------------------------
(* WebRetriever.retrieve *)

\* full_context[:MAX_CONTEXT_LENGTH] + "..." when it is too long
truncate_context(text) ==
  IF Len(text) > MAX_CONTEXT_LENGTH
    THEN Prefix(text, MAX_CONTEXT_LENGTH) \o S_ELLIPSIS
    ELSE text

\* the sections of the legacy context, before they are joined
legacy_context_parts(web_text, youtube_text, github_text) ==
  (IF web_text # <<>> THEN <<S_WEB_HEADER \o web_text>> ELSE <<>>)
  \o (IF youtube_text # <<>> THEN <<S_YOUTUBE_HEADER \o youtube_text>> ELSE <<>>)
  \o (IF github_text # <<>> THEN <<S_GITHUB_LEGACY_HEADER \o github_text>> ELSE <<>>)

\* Returns [raised, value: the context, naive: the untruncated rendering, calls].
retrieve(w, query) ==
  LET web == _web_search(w, query)
      youtube == _youtube_search(w, query)
      github == _github_search(w, query)
      made == web.calls \o youtube.calls \o github.calls
      joined == Join(<<"\n","\n">>,
                     legacy_context_parts(web.value, youtube.value, github.value))
      truncated == truncate_context(joined)
  IN IF web.raised \/ youtube.raised \/ github.raised
       THEN [raised |-> TRUE, value |-> <<>>, naive |-> <<>>, calls |-> made]
       ELSE [ raised |-> FALSE,
              value |-> IF truncated # <<>> THEN truncated ELSE S_NO_INFO,
              naive |-> joined,
              calls |-> made ]

-----------------------------------------------------------------------------
(* ExternalAgent.get_response: validation and context composition *)

web_valid(result) ==
  \A key \in {"title", "url", "description"} : ~IsNone(result[key])

youtube_valid(result) ==
  \A key \in {"title", "channel", "duration", "url", "description", "views",
              "published"} : ~IsNone(result[key])

github_valid(result) ==
  \A key \in {"repository", "description", "stars", "url", "relevance"} :
    ~IsNone(result[key])

web_text(result) ==
  S_TITLE \o Format(result.title) \o NL \o S_URL \o Format(result.url) \o NL
  \o S_DESCRIPTION \o Format(result.description) \o NL \o NL

youtube_text(result) ==
  S_TITLE \o Format(result.title) \o NL \o S_CHANNEL \o Format(result.channel) \o NL
  \o S_DURATION \o Format(result.duration) \o NL \o S_URL \o Format(result.url) \o NL
  \o S_DESCRIPTION \o Format(result.description) \o NL
  \o S_VIEWS \o Format(result.views) \o NL
  \o S_PUBLISHED \o Format(result.published) \o NL \o NL

github_text(result) ==
  S_REPOSITORY \o Format(result.repository) \o NL
  \o S_DESCRIPTION \o Format(result.description) \o NL
  \o S_STARS \o Format(result.stars) \o NL \o S_URL \o Format(result.url) \o NL
  \o S_RELEVANCE \o Format(result.relevance) \o S_MATCHING \o NL \o NL

\* "".join(texts)
RECURSIVE Concat(_)
Concat(texts) == IF texts = <<>> THEN <<>> ELSE Head(texts) \o Concat(Tail(texts))

\* lines 66-113: each non-empty list is replaced by its valid records
validated(bundle) ==
  [ bundle EXCEPT
      !.web_results = SelectSeq(@, web_valid),
      !.youtube_results = SelectSeq(@, youtube_valid),
      !.github_repositories = SelectSeq(@, github_valid) ]

\* lines 64-113: one section per non-empty list of the retrieved bundle
context_parts(bundle) ==
  LET valid == validated(bundle)
      section(header, results, text(_)) ==
        header \o Concat([i \in 1..Len(results) |-> text(results[i])])
  IN (IF bundle.web_results # <<>>
        THEN <<section(S_WEB_HEADER, valid.web_results, web_text)>> ELSE <<>>)
     \o (IF bundle.youtube_results # <<>>
           THEN <<section(S_YOUTUBE_HEADER, valid.youtube_results, youtube_text)>>
           ELSE <<>>)
     \o (IF bundle.github_repositories # <<>>
           THEN <<section(S_GITHUB_HEADER, valid.github_repositories, github_text)>>
           ELSE <<>>)

\* the join alone, without the sentinel
compose_context_no_sentinel(bundle) == Join(NL, context_parts(bundle))

\* line 121
compose_context(bundle) ==
  LET parts == context_parts(bundle) IN
    IF parts # <<>> THEN Join(NL, parts) ELSE S_NO_INFO

-----------------------------------------------------------------------------
(* PineconeRetriever: scores and confidences are counted in hundredths *)

S_UNTITLED == <<"U","n","t","i","t","l","e","d"," ","D","o","c","u","m","e","n","t">>
S_NO_CONTENT == <<"N","o"," ","c","o","n","t","e","n","t"," ","a","v","a","i","l","a","b","l","e">>
S_KNOWLEDGE_SOURCE == <<"k","n","o","w","l","e","d","g","e","_","b","a","s","e">>
S_GENERAL == <<"g","e","n","e","r","a","l">>
S_SAMPLE_TITLE == <<"S","a","m","p","l","e"," ","I","n","t","e","r","n","a","l"," ","D","o","c","u","m","e","n","t">>
S_SAMPLE_CONTENT == <<"T","h","i","s"," ","i","s"," ","a"," ","s","a","m","p","l","e"," ","i","n","t","e","r","n","a","l"," ","d","o","c","u","m","e","n","t","."," ","P","l","e","a","s","e"," ","c","o","n","f","i","g","u","r","e"," ","P","i","n","e","c","o","n","e"," ","f","o","r"," ","a","c","t","u","a","l"," ","i","n","t","e","r","n","a","l"," ","k","n","o","w","l","e","d","g","e"," ","r","e","t","r","i","e","v","a","l",".">>
S_FALLBACK == <<"f","a","l","l","b","a","c","k">>

\* 'relevance_score': 0.5 and 'confidence_score': 0.3 of the fallback
FALLBACK_RELEVANCE == 50
FALLBACK_CONFIDENCE == 30
\* list(topics)[:5]
TOPICS_LIMIT == 5

\* the number num / den
Fraction(num, den) == [num |-> num, den |-> den]

RECURSIVE Sum(_)
Sum(numbers) == IF numbers = <<>> THEN 0 ELSE Head(numbers) + Sum(Tail(numbers))

\* list(a_set): the elements in any order
Orderings(S) == {order \in [1..Cardinality(S) -> S] : Range(order) = S}

\* lines 112-127
_get_fallback_response ==
  [ internal_documents |->
      << [ title |-> PyStr(S_SAMPLE_TITLE),
           content |-> PyStr(S_SAMPLE_CONTENT),
           source |-> PyStr(S_FALLBACK),
           relevance_score |-> FALLBACK_RELEVANCE,
           metadata |-> [category |-> PyStr(S_GENERAL), tags |-> <<"sample">>] ] >>,
    confidence_score |-> Fraction(FALLBACK_CONFIDENCE, 1),
    related_topics |-> <<"sample", "configuration">>,
    sources_used |-> <<"fallback">> ]

\* lines 43-48
structured_results ==
  [ internal_documents |-> <<>>, confidence_score |-> Fraction(0, 1),
    related_topics |-> <<>>, sources_used |-> <<>> ]

\* lines 60-71: the document of a match
document(match) ==
  LET metadata == match.metadata IN
    [ title |-> Get(metadata, "title", PyStr(S_UNTITLED)),
      content |-> Get(metadata, "content", PyStr(S_NO_CONTENT)),
      source |-> Get(metadata, "source", PyStr(S_KNOWLEDGE_SOURCE)),
      relevance_score |-> match.score,
      metadata |-> [ id |-> match.id, score |-> match.score,
                     category |-> Get(metadata, "category", PyStr(S_GENERAL)),
                     tags |-> Get(metadata, "tags", <<>>) ] ]

\* lines 76-77: the tags of all matches
topics(matches) ==
  UNION { Range(matches[i].metadata.tags) :
            i \in {k \in 1..Len(matches) : "tags" \in DOMAIN matches[k].metadata} }

\* the average without the cap of line 83
avg_confidence_uncapped(matches) ==
  Fraction(Sum([i \in 1..Len(matches) |-> matches[i].score]), Len(matches))

\* lines 79-83: min(total_score / len(matches), 1.0)
avg_confidence(matches) ==
  LET total_score == Sum([i \in 1..Len(matches) |-> matches[i].score]) IN
    IF total_score > 100 * Len(matches) THEN Fraction(100, 1)
    ELSE Fraction(total_score, Len(matches))

\* p: [available: the index was set up; encode_ok, query_ok: the embedding
\* and the index answer; matches: the matches of the index, each
\* [id, score, has_metadata, metadata]]
\* The outcomes [value: the bundle returned, calls]: the order of a set's
\* elements is not determined.
pinecone_retrieve_structured(p, query) ==
  LET fallback(made) == {[value |-> _get_fallback_response, calls |-> made]}
      encoded == <<Call("embedding.encode")>>
      queried == encoded \o <<Call("pinecone.query")>>
  IN IF ~p.available THEN fallback(<<>>)
     ELSE IF ~p.encode_ok THEN fallback(encoded)
     ELSE IF ~p.query_ok THEN fallback(queried)
     ELSE IF p.matches = <<>>
       THEN {[value |-> structured_results, calls |-> queried]}
     \* metadata.get on a match without metadata raises
     ELSE IF \E i \in 1..Len(p.matches) : ~p.matches[i].has_metadata
       THEN fallback(queried)
     ELSE { [ value |->
                [ internal_documents |->
                    [i \in 1..Len(p.matches) |-> document(p.matches[i])],
                  confidence_score |-> avg_confidence(p.matches),
                  related_topics |-> Prefix(order, TOPICS_LIMIT),
                  sources_used |-> <<"pinecone">> ],
              calls |-> queried ] : order \in Orderings(topics(p.matches)) }

-----------------------------------------------------------------------------
(* What the providers can answer *)

\* the sequences over S of length at most n
SeqUpTo(S, n) == UNION {[1..k -> S] : k \in 0..n}

DropKey(d, k) == [x \in DOMAIN d \ {k} |-> d[x]]

WebFull == [title |-> PyStr(<<"t">>), link |-> PyStr(<<"u">>), body |-> PyStr(<<"b">>)]
WebLong(n) == [WebFull EXCEPT !.body = PyStr(Text(n))]

\* a result with one field absent or null
WebDefective ==
  {DropKey(WebFull, k) : k \in DOMAIN WebFull}
  \cup {[WebFull EXCEPT ![k] = PyNone] : k \in DOMAIN WebFull}

VideoFull ==
  [ id |-> PyStr(<<"v","i","d">>), title |-> PyStr(<<"t">>),
    channelTitle |-> PyStr(<<"c","h","a","n">>), description |-> PyStr(<<"d">>),
    publishedAt |-> PyStr(<<"2","0","2","4">>),
    duration |-> PyStr(<<"P","T","1","H","5","M">>), viewCount |-> PyStr(<<"4","2">>) ]
VideoLong == [VideoFull EXCEPT !.description = PyStr(Text(DESCRIPTION_LIMIT + 1))]

VideoDefective ==
  {DropKey(VideoFull, k) : k \in DOMAIN VideoFull}
  \cup {[VideoFull EXCEPT ![k] = PyNone] : k \in DOMAIN VideoFull}
  \cup {[VideoFull EXCEPT !.viewCount = PyStr(<<>>)],
        [VideoFull EXCEPT !.viewCount = PyInt(7)],
        [VideoFull EXCEPT !.duration = PyStr(<<"P","T","0","S">>)],
        [VideoFull EXCEPT !.duration = PyStr(<<"P","1","D">>)]}

Repo(name, description, stars, url) ==
  [full_name |-> name, description |-> description,
   stargazers_count |-> stars, html_url |-> url]

RepoURL == PyStr(<<"g","h">>)
RepoAI == Repo(PyStr(<<"a","/","A","I">>), PyStr(<<"a","n"," ","a","i"," ","l","i","b">>),
               PyInt(9), RepoURL)
RepoGo == Repo(PyStr(<<"g","/","g","o">>), PyNone, PyInt(3), RepoURL)

WebAnswers(samples) ==
  {[ok |-> FALSE, results |-> <<>>]}
  \cup {[ok |-> TRUE, results |-> rs] : rs \in SeqUpTo(samples, MaxResults)}

YoutubeUnconfigured ==
  [client |-> FALSE, search_ok |-> FALSE, search_items |-> 0,
   videos_ok |-> FALSE, videos |-> <<>>]
YoutubeSearchFails == [YoutubeUnconfigured EXCEPT !.client = TRUE]
YoutubeNoItems == [YoutubeSearchFails EXCEPT !.search_ok = TRUE]
YoutubeVideosFail == [YoutubeNoItems EXCEPT !.search_items = 1]
YoutubeVideos(videos) ==
  [YoutubeVideosFail EXCEPT !.search_items = Len(videos), !.videos_ok = TRUE,
                            !.videos = videos]

YoutubeAnswers(samples) ==
  {YoutubeUnconfigured, YoutubeSearchFails, YoutubeNoItems, YoutubeVideosFail}
  \cup {YoutubeVideos(vs) : vs \in SeqUpTo(samples, MaxResults) \ {<<>>}}

RateUnavailable(kind) ==
  [kind |-> kind, remaining |-> 0, reset_in |-> 0, reset_type |-> "epoch"]
RateLimit(remaining, reset_in, reset_type) ==
  [kind |-> "limit", remaining |-> remaining, reset_in |-> reset_in,
   reset_type |-> reset_type]
RateOK == RateLimit(10, 30, "datetime")

GithubUnconfigured ==
  [client |-> FALSE, rate |-> RateOK, search |-> "error", repos |-> <<>>]
GithubSearch(rate, search, repos) ==
  [client |-> TRUE, rate |-> rate, search |-> search, repos |-> repos]

\* a match of the index; a score of 90 is 0.9
Match(id, score, metadata) ==
  [id |-> id, score |-> score, has_metadata |-> TRUE, metadata |-> metadata]

MetadataFull ==
  [ title |-> PyStr(<<"d","o","c">>), content |-> PyStr(<<"c">>),
    source |-> PyStr(<<"k","b">>), category |-> PyStr(<<"h","r">>),
    tags |-> <<"hr", "policy">> ]

MatchGood == Match("m1", 90, MetadataFull)
MatchWeak == Match("m2", 20, [MetadataFull EXCEPT !.tags = <<"misc">>])
\* a match whose metadata is an empty dict
MatchBare == Match("m3", 30, <<>>)
\* a match of an index whose metric is not bounded by 1
MatchOver == Match("m5", 120, [MetadataFull EXCEPT !.tags = <<"hr", "law", "pay">>])
\* a match stored without metadata
MatchNoMetadata == [Match("m4", 50, <<>>) EXCEPT !.has_metadata = FALSE]

PineconeUnconfigured ==
  [available |-> FALSE, encode_ok |-> FALSE, query_ok |-> FALSE, matches |-> <<>>]
PineconeEncodeFails == [PineconeUnconfigured EXCEPT !.available = TRUE]
PineconeQueryFails == [PineconeEncodeFails EXCEPT !.encode_ok = TRUE]
PineconeMatches(matches) ==
  [PineconeQueryFails EXCEPT !.query_ok = TRUE, !.matches = matches]

PineconeAnswers(samples) ==
  {PineconeUnconfigured, PineconeEncodeFails, PineconeQueryFails}
  \cup {PineconeMatches(ms) : ms \in SeqUpTo(samples, MaxResults)}

-----------------------------------------------------------------------------
(* The requests of the model *)

Roles == {"learner", "trainer", "admin"}

Q_AI_LIB == PyStr(<<"A","I"," ","l","i","b">>)
Q_COOKING == PyStr(<<"c","o","o","k","i","n","g">>)
Q_HELLO == PyStr(<<"H","e","l","l","o">>)

\* state.query is whatever the caller put into QueryState
ExternalQueries == {PyNone, Q_AI_LIB, Q_COOKING, Q_HELLO}

InternalQueries ==
  {PyNone} \cup
  { PyStr(q) : q \in
    { <<"h","i">>,
      <<" "," ","H","e","l","l","o"," ","t","h","e","r","e"," ">>,
      <<"b","y","e">>,
      <<"h","i"," ","w","h","a","t"," ","i","s"," ","a","i">>,
      <<"H","i",","," ","h","o","w"," ","a","r","e"," ","y","o","u","?">>,
      <<"w","h","a","t"," ","i","s"," ","a","i">>,
      <<"g","o","o","d"," "," ","m","o","r","n","i","n","g",","," ","w","h","o"," ","a","r","e"," ","y","o","u">>,
      <<"t","h","a","n","k","s">>,
      <<"G","o","o","d"," ","e","v","e","n","i","n","g","!"," ","C","a","n"," "," ","y","o","u"," ","h","e","l","p">>,
      <<"h","i","l","l"," ","c","l","i","m","b","i","n","g">> } }

WebNullTitle == [WebFull EXCEPT !.title = PyNone]
VideoNullChannel == [VideoFull EXCEPT !.channelTitle = PyNone]

\* the answers of the three providers during one request
RegularWorlds ==
  [ web : WebAnswers({WebFull, WebNullTitle}),
    youtube : {YoutubeUnconfigured, YoutubeSearchFails,
               YoutubeVideos(<<VideoFull>>), YoutubeVideos(<<VideoNullChannel>>)},
    github : {GithubUnconfigured,
              GithubSearch(RateOK, "ok", <<RepoAI>>),
              GithubSearch(RateOK, "rate_limited", <<>>),
              GithubSearch(RateLimit(0, 30, "epoch"), "ok", <<RepoGo, RepoAI>>)},
    pinecone : {PineconeUnconfigured} ]

\* a single source answering with a long page
LongWorlds ==
  { [ web |-> [ok |-> TRUE, results |-> <<WebLong(n)>>],
      youtube |-> YoutubeUnconfigured, github |-> GithubUnconfigured,
      pinecone |-> PineconeUnconfigured ] :
    n \in {LongLen, LongLen + 1} }

ChatWorlds == RegularWorlds \cup LongWorlds

NoWorld ==
  [web |-> [ok |-> FALSE, results |-> <<>>], youtube |-> YoutubeUnconfigured,
   github |-> GithubUnconfigured, pinecone |-> PineconeUnconfigured]

\* the index behind the internal agent's tool during one request
InternalIndexes ==
  { PineconeUnconfigured, PineconeQueryFails, PineconeMatches(<<>>),
    PineconeMatches(<<MatchWeak>>), PineconeMatches(<<MatchGood, MatchWeak>>) }

NoState == [role |-> "", mode |-> "", query |-> PyNone]
NoResponse == [kind |-> "none", payload |-> <<>>]
\* config/prompts.py ROLE_PROMPTS.get(role, "")
ROLE_PROMPTS(role) ==
  CASE role = "learner" -> <<"Y","o","u"," ","a","r","e"," ","a"," ","h","e","l","p","f","u","l"," ","l","e","a","r","n","i","n","g"," ","a","s","s","i","s","t","a","n","t"," ","f","o","r"," ","s","t","u","d","e","n","t","s",".">>
    [] role = "trainer" -> <<"Y","o","u"," ","a","r","e"," ","a"," ","k","n","o","w","l","e","d","g","e","a","b","l","e"," ","t","r","a","i","n","e","r"," ","a","s","s","i","s","t","a","n","t",".">>
    [] role = "admin" -> <<"Y","o","u"," ","a","r","e"," ","a","n"," ","a","d","m","i","n"," ","a","s","s","i","s","t","a","n","t"," ","w","i","t","h"," ","o","v","e","r","s","i","g","h","t"," ","c","a","p","a","b","i","l","i","t","i","e","s",".">>
    [] OTHER -> <<>>

\* the opening of the system message of ExternalAgent.prompt_template
S_EXTERNAL_SYSTEM == <<"Y","o","u"," ","a","r","e"," ","a"," ","h","e","l","p","f","u","l"," ","A","I"," ","a","s","s","i","s","t","a","n","t">>
\* the opening of INTERNAL_AGENT_SYSTEM_PROMPT
S_INTERNAL_SYSTEM == <<"Y","o","u"," ","a","r","e"," ","a","n"," ","i","n","t","e","l","l","i","g","e","n","t"," ","i","n","t","e","r","n","a","l"," ","k","n","o","w","l","e","d","g","e"," ","a","s","s","i","s","t","a","n","t",".">>

\* the system message of the prompt the agent of this mode builds for a
\* request of this role
system_message(mode, role) ==
  IF mode = "external" THEN S_EXTERNAL_SYSTEM ELSE S_INTERNAL_SYSTEM

\* e, parse_error, fallback_error: the exceptions caught so far;
\* simple_response: the content of the model's reply to the simple prompt;
\* system_prompt: self.system_prompt; system_message: the system message of
\* the agent's prompt template
NoLocals ==
  [ e |-> <<>>, parse_error |-> <<>>, fallback_error |-> <<>>,
    greeting_prefix |-> <<>>, naive |-> <<>>, simple_response |-> PyNone,
    system_prompt |-> <<>>, system_message |-> <<>> ]

\* BaseAgent.__init__ and the prompt template of the agent's constructor
AgentLocals(mode, role) ==
  [ NoLocals EXCEPT !.system_prompt = ROLE_PROMPTS(role),
                    !.system_message = system_message(mode, role) ]

\* the texts the model can answer with
ModelTexts == {<<"o","k">>, <<>>}

S_MODEL_FAILED == <<"m","o","d","e","l"," ","c","a","l","l"," ","f","a","i","l","e","d">>
S_BAD_OUTPUT == <<"o","u","t","p","u","t"," ","d","o","e","s"," ","n","o","t"," ","m","a","t","c","h"," ","t","h","e"," ","s","c","h","e","m","a">>
S_RETRIEVE_FAILED == <<"r","e","t","r","i","e","v","e"," ","f","a","i","l","e","d">>
S_PROMPT_FAILED == <<"p","r","o","m","p","t"," ","f","a","i","l","e","d">>
S_UNABLE_PARSING == <<"U","n","a","b","l","e"," ","t","o"," ","g","e","n","e","r","a","t","e"," ","a"," ","c","o","m","p","r","e","h","e","n","s","i","v","e"," ","r","e","s","p","o","n","s","e"," ","d","u","e"," ","t","o"," ","p","a","r","s","i","n","g"," ","e","r","r","o","r","s","."," ","H","e","r","e","'","s"," ","w","h","a","t"," ","I"," ","f","o","u","n","d",":"," ">>
S_ERROR_GENERATING == <<"E","r","r","o","r"," ","g","e","n","e","r","a","t","i","n","g"," ","r","e","s","p","o","n","s","e",":"," ">>
S_UNABLE_ERROR == <<"U","n","a","b","l","e"," ","t","o"," ","g","e","n","e","r","a","t","e"," ","r","e","s","p","o","n","s","e"," ","d","u","e"," ","t","o"," ","a","n"," ","e","r","r","o","r","."," ","P","l","e","a","s","e"," ","c","h","e","c","k"," ","y","o","u","r"," ","A","P","I"," ","k","e","y","s"," ","a","n","d"," ","t","r","y"," ","a","g","a","i","n",".">>

\* a process that has served no request and built no client
NoProcess == [requests |-> 0, github_clients |-> 0, pinecone_clients |-> 0]

Init ==
  /\ pc = "idle"
  /\ state = NoState
  /\ world = NoWorld
  /\ structured_context = EmptyBundle
  /\ full_context = <<>>
  /\ locals = NoLocals
  /\ process = NoProcess
  /\ calls = <<>>
  /\ response = NoResponse

\* main.py chat(): the QueryState is built and the agent of its mode runs
Chat ==
  /\ pc = "idle"
  /\ process.requests < MaxRequests
  /\ \/ \E role \in Roles, query \in ExternalQueries, w \in ChatWorlds :
          /\ state' = [role |-> role, mode |-> "external", query |-> query]
          /\ locals' = AgentLocals("external", role)
          \* ExternalAgent.__init__: self.retriever = WebRetriever()
          /\ process' = [process EXCEPT
                           !.requests = @ + 1,
                           !.github_clients = @ + (IF w.github.client THEN 1 ELSE 0)]
          /\ world' = w
          /\ pc' = "external.retrieve"
     \/ \E role \in Roles, query \in InternalQueries, index \in InternalIndexes :
          /\ state' = [role |-> role, mode |-> "internal", query |-> query]
          /\ locals' = AgentLocals("internal", role)
          \* InternalAgent._setup_tools: InternalToolManager builds a PineconeRetriever
          /\ process' = [process EXCEPT
                           !.requests = @ + 1,
                           !.pinecone_clients = @ + (IF index.available THEN 1 ELSE 0)]
          /\ world' = [NoWorld EXCEPT !.pinecone = index]
          /\ pc' = "internal.start"
  /\ UNCHANGED <<structured_context, full_context, calls, response>>

-----------------------------------------------------------------------------
(* ExternalAgent.get_response, step by step *)

\* lines 172-182: the outer handler's payload
outer_error_payload(e) ==
  [ error |-> TRUE,
    message |-> S_ERROR_GENERATING \o e,
    query |-> state.query,
    sources_used |-> <<>>,
    answer |-> S_UNABLE_ERROR ]

\* the payload of lines 152-158 built from the lists as they were retrieved
fallback_payload_unvalidated(answer) ==
  LET retrieved == retrieve_structured(world, state.query).bundle IN
    [ answer |-> answer,
      web_results |-> retrieved.web_results,
      youtube_results |-> retrieved.youtube_results,
      github_repositories |-> retrieved.github_repositories,
      sources_used |-> retrieved.sources_used ]

\* lines 152-158
fallback_payload(answer) ==
  [ answer |-> answer,
    web_results |-> structured_context.web_results,
    youtube_results |-> structured_context.youtube_results,
    github_repositories |-> structured_context.github_repositories,
    sources_used |-> structured_context.sources_used ]

\* the final payload built like the outer handler's, without the record lists
final_fallback_payload_without_lists(parse_error) ==
  [ answer |-> S_UNABLE_PARSING \o Prefix(full_context, ANSWER_CONTEXT_LIMIT)
               \o S_ELLIPSIS,
    web_results |-> <<>>,
    youtube_results |-> <<>>,
    github_repositories |-> <<>>,
    sources_used |-> <<>>,
    error |-> TRUE,
    error_message |-> parse_error ]

\* lines 162-170
final_fallback_payload(parse_error) ==
  [ answer |-> S_UNABLE_PARSING \o Prefix(full_context, ANSWER_CONTEXT_LIMIT)
               \o S_ELLIPSIS,
    web_results |-> structured_context.web_results,
    youtube_results |-> structured_context.youtube_results,
    github_repositories |-> structured_context.github_repositories,
    sources_used |-> structured_context.sources_used,
    error |-> TRUE,
    error_message |-> parse_error ]

\* a reply of the model that parses into StructuredResponse
StructuredReplies ==
  { [ answer |-> a,
      web_results |-> structured_context.web_results,
      youtube_results |-> structured_context.youtube_results,
      github_repositories |-> repos,
      github_code |-> <<>>,
      sources_used |-> structured_context.sources_used ] :
    a \in ModelTexts, repos \in {<<>>, structured_context.github_repositories} }

\* the outer handler lets the exception through
ExternalExceptReraises(e) ==
  /\ locals' = [locals EXCEPT !.e = e]
  /\ pc' = "done"
  /\ response' = [kind |-> "raised", payload |-> <<>>]

\* lines 172-182: an exception e that reaches the outer handler is turned
\* into the payload the call returns
ExternalExcept(e) ==
  /\ locals' = [locals EXCEPT !.e = e]
  /\ pc' = "done"
  /\ response' = [kind |-> "returned", payload |-> outer_error_payload(e)]

\* lines 59-61
ExternalRetrieve ==
  /\ pc = "external.retrieve"
  /\ \E got \in {retrieve_structured(world, state.query)} :
       /\ calls' = calls \o got.calls
       /\ IF got.raised
            THEN /\ ExternalExcept(S_RETRIEVE_FAILED)
                 /\ UNCHANGED structured_context
            ELSE /\ structured_context' = got.bundle
                 /\ pc' = "external.compose"
                 /\ UNCHANGED <<response, locals>>
  /\ UNCHANGED <<process, state, world, full_context>>

\* lines 64-121
ExternalCompose ==
  /\ pc = "external.compose"
  /\ structured_context' = validated(structured_context)
  /\ full_context' = compose_context(structured_context)
  /\ pc' = "external.prompt"
  /\ UNCHANGED <<process, state, world, locals, calls, response>>

\* lines 124-126: the prompt is given its format instructions
ExternalPrompt ==
  /\ pc = "external.prompt"
  /\ \E ok \in BOOLEAN :
       IF ok THEN pc' = "external.chain" /\ UNCHANGED <<response, locals>>
             ELSE ExternalExcept(S_PROMPT_FAILED)
  /\ UNCHANGED <<process, state, world, structured_context, full_context, calls>>

\* lines 130-140: prompt | model | parser
ExternalChain ==
  /\ pc = "external.chain"
  /\ calls' = Append(calls, Call("model.invoke:structured"))
  /\ \/ \E reply \in StructuredReplies :
          /\ response' = [kind |-> "returned", payload |-> [json |-> reply]]
          /\ pc' = "done"
          /\ UNCHANGED locals
     \/ \E parse_error \in {S_MODEL_FAILED, S_BAD_OUTPUT} :
          /\ locals' = [locals EXCEPT !.parse_error = parse_error]
          /\ pc' = "external.fallback"
          /\ UNCHANGED response
  /\ UNCHANGED <<process, state, world, structured_context, full_context>>

\* the simple call is tried again when it fails
ExternalFallbackRetries ==
  /\ pc = "external.fallback"
  /\ calls' = Append(calls, Call("model.invoke:simple"))
  /\ \/ \E text \in ModelTexts :
          /\ response' = [kind |-> "returned", payload |-> fallback_payload(text)]
          /\ pc' = "done"
          /\ locals' = [locals EXCEPT !.simple_response = PyStr(text)]
     \/ /\ locals' = [locals EXCEPT !.fallback_error = S_MODEL_FAILED]
        /\ pc' = "external.fallback"
        /\ UNCHANGED response
  /\ UNCHANGED <<process, state, world, structured_context, full_context>>

\* lines 141-170: the simple call and, when it fails, the final payload
ExternalFallback ==
  /\ pc = "external.fallback"
  /\ calls' = Append(calls, Call("model.invoke:simple"))
  /\ \/ \E text \in ModelTexts :
          /\ response' = [kind |-> "returned", payload |-> fallback_payload(text)]
          /\ locals' = [locals EXCEPT !.simple_response = PyStr(text)]
     \/ /\ locals' = [locals EXCEPT !.fallback_error = S_MODEL_FAILED]
        /\ response' = [kind |-> "returned",
                        payload |-> final_fallback_payload(locals.parse_error)]
  /\ pc' = "done"
  /\ UNCHANGED <<process, state, world, structured_context, full_context>>

-----------------------------------------------------------------------------
(* Pattern matching of agents/base_agent.py and agents/internal_agent.py *)

IsWordChar(c) ==
  \/ IsDigit(c) \/ c = "_"
  \/ LowerChar(c) \in {"a","b","c","d","e","f","g","h","i","j","k","l","m",
                       "n","o","p","q","r","s","t","u","v","w","x","y","z"}

\* \b between s[p] and s[p + 1]
BoundaryAt(s, p) ==
  LET left == p >= 1 /\ p <= Len(s) /\ IsWordChar(s[p])
      right == p + 1 >= 1 /\ p + 1 <= Len(s) /\ IsWordChar(s[p + 1])
  IN left # right

\* the literal w at position i of s
MatchAt(s, w, i) ==
  /\ i >= 1 /\ i + Len(w) - 1 <= Len(s)
  /\ SubSeq(s, i, i + Len(w) - 1) = w

\* re.search(r'\bw\b', s)
SearchWord(s, w) ==
  \E i \in 1..Len(s) :
    MatchAt(s, w, i) /\ BoundaryAt(s, i - 1) /\ BoundaryAt(s, i + Len(w) - 1)

\* the index after the run of whitespace that starts at i
RECURSIVE SkipSpaces(_, _)
SkipSpaces(s, i) ==
  IF i <= Len(s) /\ IsSpace(s[i]) THEN SkipSpaces(s, i + 1) ELSE i

\* a\s+b\b at position i
MatchSpaced(s, a, b, i) ==
  /\ MatchAt(s, a, i)
  /\ LET k == SkipSpaces(s, i + Len(a)) IN
       /\ k > i + Len(a)
       /\ MatchAt(s, b, k)
       /\ BoundaryAt(s, k + Len(b) - 1)

\* s.strip()
RECURSIVE StripRight(_)
StripRight(s) ==
  IF s # <<>> /\ IsSpace(s[Len(s)]) THEN StripRight(SubSeq(s, 1, Len(s) - 1)) ELSE s

Strip(s) == LET i == SkipSpaces(s, 1) IN StripRight(SubSeq(s, i, Len(s)))

GREETING_WORDS ==
  { <<"h","i">>,
    <<"h","e","l","l","o">>,
    <<"h","e","y">>,
    <<"g","o","o","d"," ","m","o","r","n","i","n","g">>,
    <<"g","o","o","d"," ","a","f","t","e","r","n","o","o","n">>,
    <<"g","o","o","d"," ","e","v","e","n","i","n","g">> }

\* BaseAgent._is_greeting
_is_greeting(query) ==
  LET q == Lower(query) IN
    \/ \E w \in GREETING_WORDS : SearchWord(q, w)
    \/ SearchWord(q, <<"h","o","w"," ","a","r","e"," ","y","o","u">>)
    \/ SearchWord(q, <<"w","h","a","t","'","s"," ","u","p">>)
    \/ SearchWord(q, <<"t","h","a","n","k"," ","y","o","u">>)
    \/ SearchWord(q, <<"t","h","a","n","k","s"," ","y","o","u">>)
    \* \bgoodbye|bye\b
    \/ \E i \in 1..Len(q) : MatchAt(q, <<"g","o","o","d","b","y","e">>, i) /\ BoundaryAt(q, i - 1)
    \/ \E i \in 1..Len(q) : MatchAt(q, <<"b","y","e">>, i) /\ BoundaryAt(q, i + 2)
    \/ SearchWord(q, <<"s","e","e"," ","y","o","u">>)

\* InternalAgent._starts_with_greeting
_starts_with_greeting(query) ==
  LET q == Lower(query)
      i == SkipSpaces(q, 1)
  IN \/ \E w \in { <<"h","i">>,
              <<"h","e","l","l","o">>,
              <<"h","e","y">> } :
          MatchAt(q, w, i) /\ BoundaryAt(q, i + Len(w) - 1)
     \/ \E w \in { <<"m","o","r","n","i","n","g">>,
              <<"a","f","t","e","r","n","o","o","n">>,
              <<"e","v","e","n","i","n","g">> } :
          MatchSpaced(q, <<"g","o","o","d">>, w, i)

\* InternalAgent._contains_question
_contains_question(query) ==
  LET q == Lower(query) IN
    \/ IsSubstring(<<"?">>, query)
    \/ \E w \in { <<"w","h","o">>,
             <<"w","h","a","t">>,
             <<"w","h","e","n">>,
             <<"w","h","e","r","e">>,
             <<"w","h","y">>,
             <<"h","o","w">>,
             <<"w","h","i","c","h">> } :
         SearchWord(q, w)
    \/ \E w \in { <<"c","a","n">>,
             <<"c","o","u","l","d">>,
             <<"w","o","u","l","d">>,
             <<"s","h","o","u","l","d">> } :
         \E i \in 1..Len(q) :
           BoundaryAt(q, i - 1) /\ MatchSpaced(q, w, <<"y","o","u">>, i)
    \/ \E w \in { <<"t","e","l","l"," ","m","e">>,
             <<"s","h","o","w"," ","m","e">>,
             <<"h","e","l","p"," ","m","e">>,
             <<"n","e","e","d">>,
             <<"f","i","n","d">>,
             <<"e","x","p","l","a","i","n">> } :
         SearchWord(q, w)

-----------------------------------------------------------------------------
(* InternalAgent.get_response *)

greeting_responses ==
  { <<"H","e","l","l","o","!"," ","H","o","w"," ","c","a","n"," ","I"," ","h","e","l","p"," ","y","o","u"," ","w","i","t","h"," ","i","n","t","e","r","n","a","l"," ","k","n","o","w","l","e","d","g","e"," ","t","o","d","a","y","?">>,
    <<"H","i"," ","t","h","e","r","e","!"," ","I","'","m"," ","h","e","r","e"," ","t","o"," ","a","s","s","i","s","t"," ","y","o","u"," ","w","i","t","h"," ","c","o","m","p","a","n","y"," ","i","n","f","o","r","m","a","t","i","o","n"," ","a","n","d"," ","i","n","t","e","r","n","a","l"," ","r","e","s","o","u","r","c","e","s",".">>,
    <<"G","o","o","d"," ","t","o"," ","s","e","e"," ","y","o","u","!"," ","W","h","a","t"," ","w","o","u","l","d"," ","y","o","u"," ","l","i","k","e"," ","t","o"," ","k","n","o","w"," ","a","b","o","u","t"," ","o","u","r"," ","i","n","t","e","r","n","a","l"," ","k","n","o","w","l","e","d","g","e"," ","b","a","s","e","?">>,
    <<"H","e","l","l","o","!"," ","I","'","m"," ","r","e","a","d","y"," ","t","o"," ","h","e","l","p"," ","y","o","u"," ","f","i","n","d"," ","i","n","f","o","r","m","a","t","i","o","n"," ","f","r","o","m"," ","o","u","r"," ","i","n","t","e","r","n","a","l"," ","d","o","c","u","m","e","n","t","s"," ","a","n","d"," ","r","e","s","o","u","r","c","e","s",".">> }

greeting_prefixes ==
  { <<"H","e","l","l","o","!"," ">>,
    <<"H","i","!"," ">>,
    <<"H","e","y","!"," ">>,
    <<"G","o","o","d"," ","t","o"," ","s","e","e"," ","y","o","u","!"," ">> }

S_KNOWLEDGE_BASE == <<"i","n","t","e","r","n","a","l","_","k","n","o","w","l","e","d","g","e","_","b","a","s","e">>
S_EXECUTOR_FAILED == <<"e","x","e","c","u","t","o","r"," ","f","a","i","l","e","d">>

\* what json.loads gives: an object (a dict of its fields) or another value
JObject(fields) == [j |-> "object", fields |-> fields]
JOther(kind) == [j |-> kind, fields |-> <<>>]

\* the payloads the agent builds itself
answer_payload(answer, source_document) ==
  JObject([answer |-> PyStr(answer), source_document |-> source_document])

\* result["output"]: a text that is not JSON, or the JSON value it parses to
ExecutorOutputs ==
  {[json |-> FALSE, text |-> a, value |-> JOther("none")] : a \in ModelTexts}
  \cup {[json |-> TRUE, text |-> <<>>, value |-> v] :
          v \in {JObject([answer |-> PyStr(a)]) : a \in ModelTexts}
                \cup {JObject([answer |-> PyNone]), JObject([note |-> PyStr(<<"n">>)]),
                      JOther("array"), JOther("number"), JOther("string"),
                      JOther("null")}}

\* lines 108-124
parse_result(output, greeting_prefix) ==
  IF output.json
    THEN IF /\ greeting_prefix # <<>>
            /\ output.value.j = "object"
            /\ "answer" \in DOMAIN output.value.fields
            /\ Truthy(output.value.fields.answer)
           THEN JObject([output.value.fields EXCEPT
                           !.answer = PyStr(greeting_prefix \o @.s)])
           ELSE output.value
    ELSE answer_payload(greeting_prefix \o output.text, PyStr(S_KNOWLEDGE_BASE))

\* lines 126-130: the outer handler
InternalExcept(e) ==
  /\ locals' = [locals EXCEPT !.e = e]
  /\ response' = [kind |-> "returned",
                  payload |-> answer_payload(S_ERROR_GENERATING \o e, PyNone)]

\* the fast path taken only for a query that starts with a greeting
InternalStartAnchored ==
  /\ pc = "internal.start"
  /\ \E user_query \in {Strip(Or(state.query, PyStr(<<>>)).s)} :
       IF _starts_with_greeting(user_query) /\ ~_contains_question(user_query)
         THEN /\ \E answer \in greeting_responses :
                   response' = [kind |-> "returned",
                                payload |-> answer_payload(answer, PyNone)]
              /\ pc' = "done"
              /\ UNCHANGED locals
         ELSE /\ IF _starts_with_greeting(user_query) /\ _contains_question(user_query)
                   THEN \E prefix \in greeting_prefixes :
                          locals' = [locals EXCEPT !.greeting_prefix = prefix]
                   ELSE locals' = [locals EXCEPT !.greeting_prefix = <<>>]
              /\ pc' = "internal.execute"
              /\ UNCHANGED response
  /\ UNCHANGED <<process, state, world, structured_context, full_context, calls>>

\* lines 77-102
InternalStart ==
  /\ pc = "internal.start"
  /\ \E user_query \in {Strip(Or(state.query, PyStr(<<>>)).s)} :
       IF _is_greeting(user_query) /\ ~_contains_question(user_query)
         THEN /\ \E answer \in greeting_responses :
                   response' = [kind |-> "returned",
                                payload |-> answer_payload(answer, PyNone)]
              /\ pc' = "done"
              /\ UNCHANGED locals
         ELSE /\ IF _starts_with_greeting(user_query) /\ _contains_question(user_query)
                   THEN \E prefix \in greeting_prefixes :
                          locals' = [locals EXCEPT !.greeting_prefix = prefix]
                   ELSE locals' = [locals EXCEPT !.greeting_prefix = <<>>]
              /\ pc' = "internal.execute"
              /\ UNCHANGED response
  /\ UNCHANGED <<process, state, world, structured_context, full_context, calls>>

\* tools/internal_tools.py lines 19-25: the tool the executor offers to the
\* model; its outcomes [value: the bundle it serializes, calls]
_retrieve_internal_knowledge(p, query) ==
  { [ value |-> got.value,
      calls |-> <<Call("tool.retrieve_internal_knowledge")>> \o got.calls ] :
    got \in pinecone_retrieve_structured(p, query) }

\* lines 44-56 and 105: a run of the tools agent. The model is asked; it
\* answers, or it calls the tool and is asked again with the tool's result.
\* [raised: the run ended with an exception, calls, retrieved: the bundle the
\* tool returned, if it was called]
ExecutorRuns ==
  LET asked == <<Call("executor.invoke"), Call("llm.invoke")>> IN
    { [raised |-> r, calls |-> asked, retrieved |-> structured_context] :
      r \in BOOLEAN }
    \cup { [ raised |-> r,
             calls |-> asked \o got.calls \o <<Call("llm.invoke")>>,
             retrieved |-> got.value ] :
           r \in BOOLEAN,
           got \in _retrieve_internal_knowledge(world.pinecone, state.query) }

\* lines 105-130: the executor runs, and its result is parsed or the outer
\* handler answers
InternalExecute ==
  /\ pc = "internal.execute"
  /\ \E run \in ExecutorRuns :
       /\ calls' = calls \o run.calls
       /\ structured_context' = run.retrieved
       /\ IF run.raised
            THEN InternalExcept(S_EXECUTOR_FAILED)
            ELSE /\ \E output \in ExecutorOutputs :
                      response' = [kind |-> "returned",
                                   payload |-> parse_result(output,
                                                            locals.greeting_prefix)]
                 /\ UNCHANGED locals
  /\ pc' = "done"
  /\ UNCHANGED <<process, state, world, full_context>>

-----------------------------------------------------------------------------
(* WebRetriever.retrieve, called on its own *)

RetrieveQueries == ExternalQueries \ {PyNone}

CallRetrieve ==
  /\ pc = "idle"
  /\ \E query \in RetrieveQueries, w \in ChatWorlds :
       LET got == retrieve(w, query) IN
         /\ state' = [role |-> "", mode |-> "retrieve", query |-> query]
         /\ world' = w
         /\ calls' = got.calls
         /\ full_context' = got.value
         /\ locals' = [locals EXCEPT !.naive = got.naive]
         /\ response' = IF got.raised THEN [kind |-> "raised", payload |-> <<>>]
                        ELSE [kind |-> "returned", payload |-> got.value]
  /\ pc' = "done"
  /\ UNCHANGED <<process, structured_context>>

-----------------------------------------------------------------------------
(* The three adapters, called on their own *)

QueryAlphabet == {"a", "i", "A", " "}

\* every query of at most MaxQueryLen characters, and some longer ones
AdapterQueries ==
  SeqUpTo(QueryAlphabet, MaxQueryLen)
  \cup { <<"A","I"," ","l","i","b">>,
         <<"a","i"," ","a">>,
         <<"c","o","o","k","i","n","g">>,
         <<"g","o"," ","a","i"," ","A","I">>,
         <<" ","a","/","a","i"," "," ","l","i","b"," ">>,
         <<"n","/","a"," ","g","o">> }

RepoSamples ==
  { RepoAI, RepoGo,
    [RepoAI EXCEPT !.stargazers_count = PyNone],
    [RepoAI EXCEPT !.stargazers_count = PyInt(0)],
    [RepoAI EXCEPT !.html_url = PyNone],
    [RepoAI EXCEPT !.full_name = PyNone],
    [RepoAI EXCEPT !.full_name = PyStr(<<>>)],
    Repo(PyStr(<<"x","/","y">>), PyStr(<<"z">>), PyInt(1), RepoURL) }

Rates ==
  { RateOK, RateUnavailable("raise"), RateUnavailable("unknown"),
    RateUnavailable("none"), RateLimit(0, 30, "epoch"), RateLimit(0, 30, "datetime"),
    RateLimit(0, 0 - 100, "epoch") }

\* more repositories than MAX_SEARCH_RESULTS
RepoMany == [i \in 1..(MAX_SEARCH_RESULTS + 1) |-> [RepoAI EXCEPT !.stargazers_count = PyInt(i)]]

GithubAnswers ==
  {GithubUnconfigured, GithubSearch(RateOK, "ok", RepoMany)}
  \cup {GithubSearch(rate, "ok", <<RepoAI>>) : rate \in Rates}
  \cup {GithubSearch(RateOK, search, <<RepoAI>>) :
          search \in {"none", "rate_limited", "error"}}
  \cup {GithubSearch(RateOK, "ok", repos) : repos \in SeqUpTo(RepoSamples, MaxResults)}

\* the call returns what the adapter returned, or raises what it raised
AdapterCall(mode, query, w, got) ==
  /\ state' = [role |-> "", mode |-> mode, query |-> query]
  /\ world' = w
  /\ calls' = got.calls
  /\ response' = IF got.raised THEN [kind |-> "raised", payload |-> <<>>]
                 ELSE [kind |-> "returned", payload |-> got.value]
  /\ pc' = "done"
  /\ UNCHANGED <<process, structured_context, full_context, locals>>

CallWebAdapter ==
  /\ pc = "idle"
  /\ \E answer \in WebAnswers({WebFull} \cup WebDefective) :
       LET w == [NoWorld EXCEPT !.web = answer] IN
         AdapterCall("adapter.web", Q_AI_LIB, w, _web_search_structured(w, Q_AI_LIB))

CallYoutubeAdapter ==
  /\ pc = "idle"
  /\ \E answer \in YoutubeAnswers({VideoFull, VideoLong} \cup VideoDefective) :
       LET w == [NoWorld EXCEPT !.youtube = answer] IN
         AdapterCall("adapter.youtube", Q_AI_LIB, w,
                     _youtube_search_structured(w, Q_AI_LIB))

CallGithubAdapter ==
  /\ pc = "idle"
  /\ \E q \in AdapterQueries, answer \in GithubAnswers :
       LET w == [NoWorld EXCEPT !.github = answer] IN
         AdapterCall("adapter.github", PyStr(q), w,
                     _github_search_repositories_only(w, PyStr(q)))

\* the matches an index can answer with
MatchSamples == {MatchGood, MatchWeak, MatchBare, MatchNoMetadata, MatchOver}

\* PineconeRetriever.retrieve_structured called on its own
CallPineconeRetriever ==
  /\ pc = "idle"
  /\ \E index \in PineconeAnswers(MatchSamples) :
       \E got \in pinecone_retrieve_structured(index, Q_AI_LIB) :
         AdapterCall("pinecone.retrieve_structured", Q_AI_LIB,
                     [NoWorld EXCEPT !.pinecone = index],
                     [raised |-> FALSE, value |-> got.value, calls |-> got.calls])

-----------------------------------------------------------------------------

\* a step of a get_response call in flight
Step ==
  \/ ExternalRetrieve
  \/ ExternalCompose
  \/ ExternalPrompt
  \/ ExternalChain
  \/ ExternalFallback
  \/ InternalStart
  \/ InternalExecute

Next ==
  \/ Chat
  \/ CallRetrieve
  \/ CallWebAdapter
  \/ CallYoutubeAdapter
  \/ CallGithubAdapter
  \/ CallPineconeRetriever
  \/ Step

Spec == Init /\ [][Next]_vars

\* main.py line 33: chat hands the response back and the process waits for
\* the next request
ChatReturn ==
  /\ pc = "done"
  /\ state.mode \in {"external", "internal"}
  /\ pc' = "idle"
  /\ state' = NoState
  /\ world' = NoWorld
  /\ structured_context' = EmptyBundle
  /\ full_context' = <<>>
  /\ locals' = NoLocals
  /\ calls' = <<>>
  /\ response' = NoResponse
  /\ UNCHANGED process

\* the requests of one process, one after the other
ServeNext ==
  \/ Chat
  \/ Step
  \/ ChatReturn

ServeSpec == Init /\ [][ServeNext]_vars

-----------------------------------------------------------------------------
(* Properties *)

Has(payload, key) == key \in DOMAIN payload

AgentCall == state.mode \in {"external", "internal"}
ExternalDone == state.mode = "external" /\ pc = "done"

\* the bundle retrieve_structured handed to the request in flight
RetrievedBundle == retrieve_structured(world, state.query).bundle

\* the model invocations of the request, in order
ModelCalls ==
  SelectSeq(calls, LAMBDA c : c.op \in {"model.invoke:structured", "model.invoke:simple"})

\* the most steps a call at this position still takes
StepsLeft(position) ==
  CASE position = "idle" -> 6
    [] position = "external.retrieve" -> 5
    [] position = "external.compose" -> 4
    [] position = "external.prompt" -> 3
    [] position = "external.chain" -> 2
    [] position = "external.fallback" -> 1
    [] position = "internal.start" -> 2
    [] position = "internal.execute" -> 1
    [] position = "done" -> 0

\* C1: ExternalAgent.get_response and InternalAgent.get_response never raise:
\* whatever fails (adapters, prompt, model, parsing, executor), no step of the
\* call raises to the caller, every step brings the call closer to its end,
\* and the call ends by returning a payload.
C1_GetResponseNeverRaises ==
  /\ [](AgentCall => response.kind # "raised")
  /\ []((AgentCall /\ pc = "done") => response.kind = "returned")
  /\ [][AgentCall' => StepsLeft(pc') < StepsLeft(pc)]_vars

C1_Witness ==
  /\ ExternalDone
  /\ ~world.web.ok
  /\ locals.parse_error # <<>> /\ locals.fallback_error # <<>>
  /\ response.kind = "returned"

\* C2: when the schema-constrained attempt and the fallback call both fail,
\* the payload has error = true, an error detail, and the record lists and
\* sources_used of the validated retrieval bundle.
C2_FinalFallbackKeepsRetrieval ==
  (ExternalDone /\ locals.parse_error # <<>> /\ locals.fallback_error # <<>>) =>
    LET p == response.payload
        kept == validated(RetrievedBundle)
    IN /\ Has(p, "error") /\ p.error = TRUE
       /\ Has(p, "error_message") /\ p.error_message = locals.parse_error
       /\ Has(p, "web_results") /\ p.web_results = kept.web_results
       /\ Has(p, "youtube_results") /\ p.youtube_results = kept.youtube_results
       /\ Has(p, "github_repositories")
       /\ p.github_repositories = kept.github_repositories
       /\ Has(p, "sources_used") /\ p.sources_used = kept.sources_used

C2_Witness ==
  /\ ExternalDone
  /\ locals.parse_error # <<>> /\ locals.fallback_error # <<>>
  /\ Len(response.payload.sources_used) = 3
  /\ response.payload.github_repositories # <<>>

\* C3: the model is invoked once when the schema-constrained attempt
\* succeeds and twice when it fails, the simple call only after the
\* structured one has failed, and never a third time.
C3_ModelInvocations ==
  state.mode = "external" =>
    /\ ModelCalls \in { <<>>, <<Call("model.invoke:structured")>>,
                        <<Call("model.invoke:structured"), Call("model.invoke:simple")>> }
    /\ Len(ModelCalls) = 2 => locals.parse_error # <<>>
    /\ (pc = "done" /\ Has(response.payload, "json")) => Len(ModelCalls) = 1
    /\ (pc = "done" /\ locals.parse_error # <<>>) => Len(ModelCalls) = 2

C3_Witness ==
  /\ ExternalDone
  /\ locals.fallback_error # <<>>
  /\ Len(ModelCalls) = 2

\* C4: in retrieve_structured every source is invoked and the records of
\* every source that answers are in the bundle, whichever of the other
\* sources fail; the call never raises.
C4_SourcesIndependent ==
  /\ locals.e # S_RETRIEVE_FAILED
  /\ pc = "external.compose" =>
       LET web == _web_search_structured(world, state.query)
           youtube == _youtube_search_structured(world, state.query)
           github == _github_search_repositories_only(world, state.query)
       IN /\ structured_context.web_results = web.value
          /\ structured_context.youtube_results = youtube.value
          /\ structured_context.github_repositories = github.value
          /\ calls = web.calls \o youtube.calls \o github.calls
          /\ Call("ddgs.text") \in Range(calls)
          /\ world.youtube.client => Call("youtube.search.list") \in Range(calls)
          /\ world.github.client => Call("github.get_rate_limit") \in Range(calls)

C4_Witness ==
  /\ pc = "external.compose"
  /\ ~world.web.ok
  /\ world.youtube.client /\ ~world.youtube.search_ok
  /\ structured_context.github_repositories # <<>>
  /\ structured_context.sources_used = <<"github">>

AllValid(records, valid(_)) == \A i \in 1..Len(records) : valid(records[i])

\* C5: every record an adapter returns has all the required fields of its
\* kind present and non-null, also when the provider's payload has a field
\* absent or null.
C5_AdapterRecordsComplete ==
  (pc = "done" /\ response.kind = "returned") =>
    /\ state.mode = "adapter.web" => AllValid(response.payload, web_valid)
    /\ state.mode = "adapter.youtube" => AllValid(response.payload, youtube_valid)
    /\ state.mode = "adapter.github" => AllValid(response.payload, github_valid)

\* the sources listed in sources_used each have a valid record in their list
SourcesUsedHaveRecords(b) ==
  \A i \in 1..Len(b.sources_used) :
    LET source == b.sources_used[i] IN
      /\ source = "web" => \E j \in 1..Len(b.web_results) : web_valid(b.web_results[j])
      /\ source = "youtube" =>
           \E j \in 1..Len(b.youtube_results) : youtube_valid(b.youtube_results[j])
      /\ source = "github" =>
           \E j \in 1..Len(b.github_repositories) :
             github_valid(b.github_repositories[j])

\* C6: in the bundle of retrieve_structured and in the payloads get_response
\* builds from it, a source is in sources_used only if its list holds at
\* least one valid record.
C6_SourcesUsedOnlyWithValidRecords ==
  /\ pc = "external.compose" => SourcesUsedHaveRecords(structured_context)
  /\ (ExternalDone /\ Has(response.payload, "web_results")) =>
       SourcesUsedHaveRecords(response.payload)

GithubCalls ==
  SelectSeq(calls, LAMBDA c : c.op \in {"github.get_rate_limit",
                                        "github.search_repositories"})

\* C7: for a query without any technology keyword the repository adapter
\* returns an empty list and makes no call to the code-host provider.
C7_NoProviderCallWithoutKeyword ==
  ( /\ pc = "done" /\ state.mode = "adapter.github"
    /\ ~is_programming_query(Lower(state.query.s)) ) =>
    /\ response.kind = "returned" /\ response.payload = <<>>
    /\ GithubCalls = <<>>

\* the number of whitespace-split lowercase query tokens that occur in the
\* repository's lowercase full name or lowercase description
TokensMatching(query, repo) ==
  LET tokens == Split(Lower(query))
      name == Lower(repo.full_name.s)
      description == IF IsNone(repo.description) THEN <<>>
                     ELSE Lower(repo.description.s)
  IN Cardinality({i \in 1..Len(tokens) :
                    IsSubstring(tokens[i], name) \/ IsSubstring(tokens[i], description)})

\* C8: every record the repository adapter returns has relevance > 0, and
\* relevance is the number of query tokens found in the repository's name or
\* description, case-insensitively.
C8_RelevancePositive ==
  (pc = "done" /\ state.mode = "adapter.github" /\ response.kind = "returned") =>
    \A i \in 1..Len(response.payload) :
      LET r == response.payload[i] IN
        /\ r.relevance.t = "int" /\ r.relevance.n > 0
        /\ \E k \in 1..Len(world.github.repos) :
             LET repo == world.github.repos[k] IN
               /\ repo.full_name = r.repository
               /\ repo.stargazers_count = r.stars
               /\ r.relevance.n = TokensMatching(state.query.s, repo)

C8_Witness ==
  /\ pc = "done" /\ state.mode = "adapter.github" /\ response.kind = "returned"
  /\ \E i \in 1..Len(response.payload) : response.payload[i].relevance.n >= 2
  /\ \E i \in 1..Len(response.payload) : response.payload[i].description = PyStr(S_NA)

\* C9: the composed context is bounded: a rendering longer than
\* MAX_CONTEXT_LENGTH becomes its first MAX_CONTEXT_LENGTH characters followed
\* by "...", in ExternalAgent.get_response and in WebRetriever.retrieve.
C9_ContextBounded ==
  /\ ( /\ state.mode = "external"
       /\ pc \in {"external.prompt", "external.chain", "external.fallback"} ) =>
       /\ Len(full_context) <= MAX_CONTEXT_LENGTH + Len(S_ELLIPSIS)
       /\ LET naive == Join(NL, context_parts(RetrievedBundle)) IN
            Len(naive) > MAX_CONTEXT_LENGTH =>
              full_context = Prefix(naive, MAX_CONTEXT_LENGTH) \o S_ELLIPSIS
  /\ (state.mode = "retrieve" /\ pc = "done" /\ response.kind = "returned") =>
       /\ Len(response.payload) <= MAX_CONTEXT_LENGTH + Len(S_ELLIPSIS)
       /\ Len(locals.naive) > MAX_CONTEXT_LENGTH =>
            response.payload = Prefix(locals.naive, MAX_CONTEXT_LENGTH) \o S_ELLIPSIS

BundleEmpty(b) ==
  b.web_results = <<>> /\ b.youtube_results = <<>> /\ b.github_repositories = <<>>

\* C10: composing an empty bundle yields the sentinel 'No relevant
\* information found.', never an empty text and never an error, in
\* ExternalAgent.get_response and in WebRetriever.retrieve.
C10_EmptyBundleSentinel ==
  /\ ( /\ state.mode = "external"
       /\ pc \in {"external.prompt", "external.chain", "external.fallback"} ) =>
       /\ full_context # <<>>
       /\ BundleEmpty(RetrievedBundle) => full_context = S_NO_INFO
  /\ (state.mode = "retrieve" /\ pc = "done") =>
       /\ response.kind = "returned"
       /\ response.payload # <<>>
       /\ ( /\ _web_search(world, state.query).value = <<>>
            /\ _youtube_search(world, state.query).value = <<>>
            /\ _github_search(world, state.query).value = <<>> ) =>
            response.payload = S_NO_INFO

C10_Witness ==
  /\ state.mode = "external" /\ pc = "external.chain"
  /\ BundleEmpty(RetrievedBundle)
  /\ world.github.client /\ world.youtube.client
  /\ full_context = S_NO_INFO

InternalCall == state.mode = "internal" /\ state.query.t = "str"

\* the query of the request is a greeting without a question
PureGreeting ==
  _is_greeting(state.query.s) /\ ~_contains_question(state.query.s)

\* C11: in internal mode a query that matches a greeting pattern and has no
\* interrogative marker is answered with one of the canned greetings and a
\* null source, and no call is made to the executor, the retriever or the
\* model.
C11_InternalGreetingShortCircuit ==
  (InternalCall /\ PureGreeting) =>
    /\ calls = <<>>
    /\ pc \in {"internal.start", "done"}
    /\ pc = "done" =>
         \E answer \in greeting_responses :
           response = [kind |-> "returned", payload |-> answer_payload(answer, PyNone)]

C11_Witness ==
  /\ InternalCall /\ PureGreeting /\ pc = "done"
  /\ ~_starts_with_greeting(state.query.s)
  /\ response.payload.fields.answer.s \in greeting_responses
  /\ response.payload.fields.source_document = PyNone

ExternalCall == state.mode = "external" /\ state.query.t = "str"

\* C12: in external mode a query that matches a greeting pattern and has no
\* interrogative marker is answered with a canned greeting and empty result
\* lists, and no call is made to the web, video and repository adapters or
\* to the model.
C12_ExternalGreetingShortCircuit ==
  (ExternalCall /\ PureGreeting) =>
    /\ calls = <<>>
    /\ pc = "done" =>
         /\ response.kind = "returned"
         /\ Has(response.payload, "answer")
         /\ response.payload.answer \in greeting_responses
         /\ Has(response.payload, "web_results")
         /\ response.payload.web_results = <<>>
         /\ response.payload.youtube_results = <<>>
         /\ response.payload.github_repositories = <<>>

\* the text begins with one of the fixed greeting prefixes
BeginsWithGreeting(text) ==
  \E prefix \in greeting_prefixes : Prefix(text, Len(prefix)) = prefix

\* C13: for a query that starts with a greeting token and contains a
\* question the executor is invoked and, whenever it returns, the answer of
\* the returned payload begins with 'Hello! ', 'Hi! ', 'Hey! ' or
\* 'Good to see you! ', whatever the executor's output was.
C13_GreetingPrefix ==
  ( /\ InternalCall /\ pc = "done"
    /\ _starts_with_greeting(state.query.s)
    /\ _contains_question(state.query.s) ) =>
    /\ Call("executor.invoke") \in Range(calls)
    /\ locals.e = <<>> =>
         /\ response.kind = "returned"
         /\ response.payload.j = "object"
         /\ "answer" \in DOMAIN response.payload.fields
         /\ response.payload.fields.answer.t = "str"
         /\ BeginsWithGreeting(response.payload.fields.answer.s)

\* the fields of the payload of an external call: those of the serialized
\* structured response, or those of the dict the fallback paths return
PayloadFields ==
  IF Has(response.payload, "json") THEN response.payload.json ELSE response.payload

\* C14: every payload ExternalAgent.get_response returns has empty
\* github_repositories and github_code, on the structured path whatever the
\* model's output holds and on the fallback paths whatever retrieval found.
C14_NoRepositoriesInExternalPayload ==
  (ExternalDone /\ response.kind = "returned") =>
    /\ Has(PayloadFields, "github_repositories") =>
         PayloadFields.github_repositories = <<>>
    /\ Has(PayloadFields, "github_code") => PayloadFields.github_code = <<>>

\* the tool of the internal agent ran during the request
ToolCalled == Call("tool.retrieve_internal_knowledge") \in Range(calls)

\* every document of the retrieved bundle scores below 0.4
AllBelowThreshold(bundle) ==
  /\ bundle.internal_documents # <<>>
  /\ \A i \in 1..Len(bundle.internal_documents) :
       bundle.internal_documents[i].relevance_score < 40

\* C15: in internal mode, when every retrieved document scores below the
\* relevance threshold 0.4, the call returns the fixed 'no relevant
\* information found' answer with a null source, and the model is never
\* called.
C15_InternalRelevanceGate ==
  ( /\ state.mode = "internal" /\ pc = "done"
    /\ ToolCalled /\ AllBelowThreshold(structured_context) ) =>
    /\ Call("llm.invoke") \notin Range(calls)
    /\ response = [kind |-> "returned", payload |-> answer_payload(S_NO_INFO, PyNone)]

\* the call ended on an error it could not recover from: an exception caught
\* by the outer handler, or a failure of the fallback after a failed parse
UnrecoveredError ==
  /\ AgentCall /\ pc = "done"
  /\ \/ locals.e # <<>>
     \/ locals.parse_error # <<>> /\ locals.fallback_error # <<>>

\* the keys and values of the returned payload, in either mode
ReturnedFields ==
  IF Has(response.payload, "j") THEN response.payload.fields ELSE PayloadFields

\* C16: in both modes every payload returned because an error could not be
\* recovered carries the flag error = true and a human-readable message.
C16_ErrorPayloadFlagged ==
  UnrecoveredError =>
    /\ response.kind = "returned"
    /\ Has(ReturnedFields, "error")
    /\ ReturnedFields.error = TRUE
    /\ \/ Has(ReturnedFields, "message") /\ ReturnedFields.message # <<>>
       \/ Has(ReturnedFields, "error_message") /\ ReturnedFields.error_message # <<>>

\* PineconeRetriever.retrieve_structured has returned
PineconeDone == state.mode = "pinecone.retrieve_structured" /\ pc = "done"

\* C17: PineconeRetriever.retrieve_structured returns a bundle with at least
\* one document for every query and every condition of the index:
\* unconfigured, raising, or answering, also with no matches.
C17_AtLeastOneDocument ==
  PineconeDone =>
    /\ response.kind = "returned"
    /\ Len(response.payload.internal_documents) >= 1

\* retrieval succeeded and the model answered every call made to it: the
\* structured call returned schema-conformant text, or free text that the
\* parser rejected and then an answer to the simple call
RetrievalAndModelSucceeded ==
  /\ ExternalDone
  /\ locals.e = <<>>
  /\ locals.parse_error \in {<<>>, S_BAD_OUTPUT}
  /\ locals.fallback_error = <<>>

\* C18: whenever retrieval and the model call succeed,
\* ExternalAgent.get_response returns a string, the serialized structured
\* response, that contains the model's answer, also when the model replied
\* with free text and not with schema-conformant text.
C18_SuccessReturnsSerializedString ==
  RetrievalAndModelSucceeded =>
    /\ response.kind = "returned"
    /\ Has(response.payload, "json")
    /\ response.payload.json.answer \in ModelTexts

\* _github_search_repositories_only has ended
GithubAdapterDone == state.mode = "adapter.github" /\ pc = "done"

\* the rate-limit check reports that no search may be made before the reset
QuotaExhausted ==
  /\ world.github.client
  /\ world.github.rate.kind = "limit"
  /\ world.github.rate.remaining <= 0

\* some call equal to first comes before the i-th call
Preceded(i, first) == \E j \in 1..(i - 1) : calls[j] = first

\* the positions of the repository searches among the calls
Searches == {i \in 1..Len(calls) : calls[i] = Call("github.search_repositories")}

\* the seconds to the reset plus the buffer
WaitNeeded == world.github.rate.reset_in + RATE_LIMIT_BUFFER

\* what the adapter does for the same query with quota left
WithQuota ==
  _github_search_repositories_only(
    [world EXCEPT !.github.rate = RateOK], state.query)

\* C19: the repository adapter checks the rate limit before every search;
\* when the check reports no remaining quota the search is issued only after
\* a wait until the reset time plus the 60-second buffer; and the exhausted
\* quota does not make the adapter return an empty result.
C19_RateLimitCheckedAndAwaited ==
  /\ (GithubAdapterDone =>
        \A i \in Searches : Preceded(i, Call("github.get_rate_limit")))
  /\ ((GithubAdapterDone /\ QuotaExhausted /\ WaitNeeded > 0) =>
        \A i \in Searches : Preceded(i, Sleep(WaitNeeded)))
  /\ ((GithubAdapterDone /\ QuotaExhausted /\ response.kind = "returned") =>
        response.payload = WithQuota.value)

\* the provider rejected the repository search as rate limited
SearchRejected ==
  /\ GithubAdapterDone
  /\ world.github.search = "rate_limited"
  /\ Searches # {}

\* the adapter slept between the i-th and the k-th call
WaitedBetween(i, k) == \E j \in (i + 1)..(k - 1) : calls[j].op = "time.sleep"

\* C20: when the repository search is rejected as rate limited the adapter
\* waits and retries the search exactly once: the search is attempted at
\* most twice per query, and the first rejection does not by itself end the
\* call with an empty repository list.
C20_RetryOnceAfterRejection ==
  /\ (GithubAdapterDone => Cardinality(Searches) <= 2)
  /\ (SearchRejected =>
        \E i, k \in Searches : i < k /\ WaitedBetween(i, k))

\* the schema-constrained attempt failed and the simple call answered
SimpleFallbackSucceeded ==
  /\ ExternalDone
  /\ locals.e = <<>>
  /\ locals.parse_error # <<>>
  /\ locals.fallback_error = <<>>

\* C21: when the schema-constrained attempt fails and the simple model call
\* succeeds, the returned payload has the simple call's raw text as answer,
\* the record lists and sources_used of the validated retrieval bundle, and
\* no error flag.
C21_SimpleFallbackPayload ==
  SimpleFallbackSucceeded =>
    ( /\ response.kind = "returned"
      /\ locals.simple_response.t = "str"
      /\ DOMAIN response.payload =
           {"answer", "web_results", "youtube_results", "github_repositories",
            "sources_used"}
      /\ response.payload.answer = locals.simple_response.s
      /\ response.payload.web_results = validated(RetrievedBundle).web_results
      /\ response.payload.youtube_results = validated(RetrievedBundle).youtube_results
      /\ response.payload.github_repositories =
           validated(RetrievedBundle).github_repositories
      /\ response.payload.sources_used = RetrievedBundle.sources_used )

\* the simple call answered 'ok' after validation had dropped a web record
C21_Witness ==
  /\ SimpleFallbackSucceeded
  /\ response.payload.answer = <<"o","k">>
  /\ RetrievedBundle.web_results # <<>>
  /\ response.payload.web_results # RetrievedBundle.web_results
  /\ response.payload.sources_used # <<>>

\* the call returned an error payload after retrieve_structured had returned
ErrorAfterRetrieval ==
  /\ ExternalDone
  /\ response.kind = "returned"
  /\ Has(response.payload, "error")
  /\ locals.e # S_RETRIEVE_FAILED

\* C22: whenever ExternalAgent.get_response returns an error payload after
\* retrieval has succeeded, also for a failure between retrieval and the
\* model call that the outer handler catches, the payload holds the
\* retrieved record lists and the sources_used of that retrieval.
C22_ErrorPayloadKeepsRetrieval ==
  ErrorAfterRetrieval =>
    ( /\ Has(response.payload, "web_results")
      /\ Has(response.payload, "youtube_results")
      /\ Has(response.payload, "github_repositories")
      /\ response.payload.web_results = structured_context.web_results
      /\ response.payload.youtube_results = structured_context.youtube_results
      /\ response.payload.github_repositories =
           structured_context.github_repositories
      /\ response.payload.sources_used = RetrievedBundle.sources_used )

\* the model has been called during the request
ModelCalled ==
  /\ AgentCall
  /\ \E i \in 1..Len(calls) :
       calls[i].op \in {"model.invoke:structured", "model.invoke:simple", "llm.invoke"}

\* C23: the system prompt of the model call is selected by the request's
\* role: the system message sent contains the prompt variant of the role,
\* and a request of the same mode with another role sends a different one.
C23_SystemPromptByRole ==
  ModelCalled =>
    ( /\ ROLE_PROMPTS(state.role) # <<>>
      /\ IsSubstring(ROLE_PROMPTS(state.role), locals.system_message)
      /\ \A other \in Roles \ {state.role} :
           AgentLocals(state.mode, other).system_message # locals.system_message )

\* the relevance scores of the documents returned
Scores == [i \in 1..Len(response.payload.internal_documents) |->
             response.payload.internal_documents[i].relevance_score]

\* the fraction c is the mean of the scores, capped at 1.0
IsCappedMean(c, scores) ==
  IF Sum(scores) > 100 * Len(scores)
    THEN c.num = 100 * c.den
    ELSE c.num * Len(scores) = Sum(scores) * c.den

\* retrieve_structured returned a bundle that holds a document
PineconeDocuments ==
  /\ PineconeDone
  /\ response.payload.internal_documents # <<>>

DocumentTags ==
  Concat([i \in 1..Len(response.payload.internal_documents) |->
            response.payload.internal_documents[i].metadata.tags])

\* the elements of a sequence in the order of their first occurrence
RECURSIVE FirstSeen(_)
FirstSeen(s) ==
  IF s = <<>> THEN <<>>
  ELSE LET rest == FirstSeen(SubSeq(s, 1, Len(s) - 1)) IN
         IF s[Len(s)] \in Range(rest) THEN rest ELSE Append(rest, s[Len(s)])

\* C25: in every bundle returned by PineconeRetriever.retrieve_structured,
\* related_topics has at most five entries, is made of the first five tags
\* encountered in match order, and every entry is a tag of the metadata of
\* some document of the same bundle.
C25_RelatedTopicsFirstFiveTags ==
  PineconeDone =>
    ( /\ Len(response.payload.related_topics) <= TOPICS_LIMIT
      /\ response.payload.related_topics = Prefix(FirstSeen(DocumentTags), TOPICS_LIMIT)
      /\ Range(response.payload.related_topics) \subseteq Range(DocumentTags) )

\* C26: across any sequence of requests handled by the chat endpoint in one
\* process, the code-host client and the vector-index client are each
\* constructed at most once and reused by later requests.
C26_ClientsConstructedOnce ==
  /\ process.github_clients <= 1
  /\ process.pinecone_clients <= 1

\* the strictly increasing ways to pick n of m positions
Increasing(n, m) ==
  {idx \in [1..n -> 1..m] : \A i, j \in 1..n : i < j => idx[i] < idx[j]}

\* out holds some of the records of all, in the order they have in all
KeepsOrder(out, all) ==
  \E idx \in Increasing(Len(out), Len(all)) :
    \A i \in 1..Len(out) : out[i] = all[idx[i]]

\* the record of every result of the provider, in the provider's order
WebInOrder ==
  [i \in 1..Len(world.web.results) |-> web_record(world.web.results[i])]
YoutubeInOrder ==
  [i \in 1..Len(world.youtube.videos) |-> youtube_record(world.youtube.videos[i])]
GithubInOrder ==
  [i \in 1..Len(world.github.repos) |->
     repo_data(Lower(state.query.s), world.github.repos[i])]

\* an adapter called on its own has returned a list
AdapterReturned(mode) ==
  state.mode = mode /\ pc = "done" /\ response.kind = "returned"

\* ExternalAgent.get_response has returned a payload it built itself from
\* the retrieved lists
ExternalLists ==
  /\ ExternalDone
  /\ response.kind = "returned"
  /\ ~Has(response.payload, "json")
  /\ Has(response.payload, "web_results")

\* C27: for each source kind the records of the list the adapter returns,
\* and of the lists of the payloads ExternalAgent.get_response builds, keep
\* the provider's relative order: filtering removes records and never
\* reorders them.
C27_ProviderOrderKept ==
  /\ (AdapterReturned("adapter.web") => KeepsOrder(response.payload, WebInOrder))
  /\ (AdapterReturned("adapter.youtube") => KeepsOrder(response.payload, YoutubeInOrder))
  /\ (AdapterReturned("adapter.github") => KeepsOrder(response.payload, GithubInOrder))
  /\ (ExternalLists => KeepsOrder(response.payload.web_results, WebInOrder))
  /\ (ExternalLists => KeepsOrder(response.payload.youtube_results, YoutubeInOrder))
  /\ (ExternalLists =>
        KeepsOrder(response.payload.github_repositories, GithubInOrder))

\* the repository adapter returned two or more of the provider's results
\* and left some out
C27_Witness ==
  /\ AdapterReturned("adapter.github")
  /\ Len(world.github.repos) > Len(response.payload)
  /\ Len(response.payload) >= 2
  /\ response.payload[1] # response.payload[2]

\* the repository adapter searched and went through the provider's results
RepositoriesListed ==
  /\ AdapterReturned("adapter.github")
  /\ Searches # {}
  /\ world.github.search = "ok"
  /\ \A i \in 1..Len(world.github.repos) : ~IsNone(world.github.repos[i].full_name)

\* the repository has matching terms, a name and a URL
Eligible(repo) ==
  /\ relevance_score(Lower(state.query.s), repo) > 0
  /\ Truthy(repo.full_name)
  /\ Truthy(repo.html_url)

\* C28: every repository among the first MAX_SEARCH_RESULTS results that
\* has relevance > 0, a non-empty full name and a non-empty URL is returned
\* whatever its star count, with stars = 0 for a missing or zero count and
\* 'N/A' for a missing description.
C28_EligibleRepositoriesReturned ==
  RepositoriesListed =>
    \A i \in 1..Len(Prefix(world.github.repos, MAX_SEARCH_RESULTS)) :
      Eligible(world.github.repos[i]) =>
        \E k \in 1..Len(response.payload) :
          /\ response.payload[k].repository = world.github.repos[i].full_name
          /\ response.payload[k].url = world.github.repos[i].html_url
          /\ response.payload[k].stars =
               (IF IsNone(world.github.repos[i].stargazers_count)
                  THEN PyInt(0) ELSE world.github.repos[i].stargazers_count)
          /\ response.payload[k].description =
               Or(world.github.repos[i].description, PyStr(S_NA))

\* InternalAgent.get_response has ended
InternalDone == state.mode = "internal" /\ pc = "done"

\* C29: InternalAgent.get_response always returns a mapping that contains
\* an 'answer' field, whatever text the agent executor outputs: plain text,
\* a JSON object with or without 'answer', or a JSON array, number, string
\* or null.
C29_InternalAnswerField ==
  InternalDone =>
    ( /\ response.kind = "returned"
      /\ response.payload.j = "object"
      /\ Has(response.payload.fields, "answer") )

\* the context of the external request has been composed
ContextComposed ==
  /\ state.mode = "external"
  /\ pc \in {"external.prompt", "external.chain", "external.fallback"}

\* no record of the retrieved bundle passes validation
NoneValid ==
  /\ validated(RetrievedBundle).web_results = <<>>
  /\ validated(RetrievedBundle).youtube_results = <<>>
  /\ validated(RetrievedBundle).github_repositories = <<>>

\* C30: in ExternalAgent.get_response, if no retrieved record passes
\* validation, every non-empty record list holding only records with a
\* missing or null required field, the context handed to the model is the
\* sentinel 'No relevant information found.' and contains no section
\* header.
C30_SentinelWhenNoneValid ==
  (ContextComposed /\ NoneValid) => full_context = S_NO_INFO

====
